---- MODULE Spec2Model ----
(***************************************************************************)
(* Rule engines and session registries of astrbot_plugin_riddlegame:       *)
(* tic-tac-toe, gomoku, go, xiangqi and junqi (src/games/*.py).            *)
(*                                                                         *)
(* Every engine method is an operator that maps (session, inputs) to a     *)
(* result record [ok, msg, g]: the returned success flag, a code for the   *)
(* returned message and the session as the method leaves it.  Every        *)
(* manager method is an operator that maps (registry, room, inputs) to     *)
(* [ok, msg, game, reg]: game tells whether the third element of the       *)
(* returned tuple is the room's session ("game") or None.  One action per  *)
(* manager method applies the operator to the registry variable; a call    *)
(* that returns ok = FALSE is a step that changes no variable exactly when *)
(* the operator leaves the registry as it was.                             *)
(*                                                                         *)
(* Python None is the string None for identifiers and enum values, -1 for  *)
(* cell indexes and <<>> for lists; a registry maps a room without a       *)
(* session to NoGame.  A Python str is a sequence of one-character         *)
(* strings.                                                                *)
(***************************************************************************)
EXTENDS Integers, Sequences, FiniteSets, TLC

VARIABLES
  mode,   \* the workload of the run: which game kinds, rooms and callers
  nops,   \* commands issued so far in the mixed workload
  actor,  \* per game kind and room: who made the last successful turn action
          \* of the session, whether an undo followed it, and whether that
          \* player had also made the turn action before it
  golog,  \* per room, of the go session: the kinds of its last successful turn
          \* action and of the one before, the board, tallies, side to move, move counter and
          \* history just before its last successful placement and the cell
          \* of that placement, the stones of each colour placed
          \* and not taken back, and the player whose scoring request no
          \* placement, pass or rejection has followed
  ttt, gmk, go, xq, jq,   \* the five managers' _games dictionaries
  jobs,      \* per room: the turn-timeout job of the scheduler, with the player
             \* to move when it was scheduled
  awaiting,  \* per room: whether a command handler is suspended in
             \* _render_and_send, before its management of the timers
  fired      \* per room: what the last turn-timeout job that fired did

vars == <<mode, nops, actor, golog, ttt, gmk, go, xq, jq, jobs, awaiting, fired>>

(***************************************************************************)
(* Bounds of the checked workloads.                                        *)
(***************************************************************************)
\* commands of the mixed workload (mode "all"): every kind, both rooms
MaxOps == 3
\* marks placed per tic-tac-toe session in the workload with an outsider
MaxTttMoves == 5
\* stones placed per gomoku session in the workload with an outsider
MaxGmkMoves == 3
MaxGoMoves == 4
MaxKoMoves == 5
\* stones placed per go session in the workload of captures
MaxCapMoves == 6
\* stones placed per go session in the workload of territories
MaxAreaMoves == 5
MaxXqMoves == 4
\* moves played on from a xiangqi position in progress, or from the start
\* of a session created after it
MaxEndMoves == 2
MaxJqMoves == 6
\* flips and moves per junqi session in the workload of battles
MaxWarMoves == 4
\* moves per session in the workloads of coordinate texts
MaxTextMoves == 2
\* moves per session in the workloads of the turn timer
MaxTimedMoves == 5
\* moves played on from the junqi position in progress
MaxLateMoves == 3

Rooms == {"r1", "r2"}
Players == {"p1", "p2", "p3"}
Kinds == {"ttt", "gmk", "go", "xq", "jq"}

\* The workloads.  "all" sends at most MaxOps commands of any kind to any
\* room from any player.  The others play room r1 of one kind in depth:
\* p1 creates, p1 and p2 try to join, and p3 is an outsider who sends every
\* command except create and join (the workloads "ttt_full", "gmk_h" and
\* "gmk_d" have no outsider).
MixedModes == {"all"}
KindOf(m) ==
  CASE m \in {"ttt", "ttt_full", "ttt_tm"} -> "ttt"
    [] m \in {"gmk", "gmk_h", "gmk_d", "gmk_txt", "gmk_tm"} -> "gmk"
    [] m \in {"go", "go_ko", "go_cap", "go_area", "go_txt", "go_tm"} -> "go"
    [] m \in {"xq", "xq_end", "xq_mid", "xq_txt", "xq_tm"} -> "xq"
    [] m \in {"jq", "jq_war", "jq_txt", "jq_late"} -> "jq"
    [] OTHER -> "all"
RoomsOf(m) == IF m \in MixedModes THEN Rooms ELSE {"r1"}
Creators(m) == {"p1"}
Joiners(m) == {"p1", "p2"}
Callers(m) == IF m \in MixedModes THEN Players ELSE {"p1", "p2"}

None == "None"
NoGame == [none |-> TRUE]

Res(ok, msg, g) == [ok |-> ok, msg |-> msg, g |-> g]
MRes(ok, msg, game, reg) == [ok |-> ok, msg |-> msg, game |-> game, reg |-> reg]

\* a manager whose rooms all hold the one session the method was called on
MgrReturnShared(reg, r, res) ==
  MRes(res.ok, res.msg, "game", [q \in Rooms |-> IF reg[q] = NoGame THEN NoGame ELSE res.g])
\* what a manager method returns after the call res of the session's method
MgrReturn(reg, r, res) == MRes(res.ok, res.msg, "game", [reg EXCEPT ![r] = res.g])
\* what join_game returns after the call res of the session's join
JoinReturn(reg, r, res) ==
  IF ~res.ok THEN MRes(FALSE, "already_in", "game", [reg EXCEPT ![r] = res.g])
  ELSE MRes(TRUE, "joined", "game", [reg EXCEPT ![r] = res.g])
\* del self._games[group_id]; return True / return False
EndGame(reg, r) ==
  IF reg[r] # NoGame
    THEN MRes(TRUE, "", None, [reg EXCEPT ![r] = NoGame])
    ELSE MRes(FALSE, "", None, reg)

(***************************************************************************)
(* Python str and int()                                                    *)
(***************************************************************************)
LOWER == <<"a","b","c","d","e","f","g","h","i","j","k","l","m",
           "n","o","p","q","r","s","t","u","v","w","x","y","z">>
UPPER == <<"A","B","C","D","E","F","G","H","I","J","K","L","M",
           "N","O","P","Q","R","S","T","U","V","W","X","Y","Z">>
DIGITS == <<"0","1","2","3","4","5","6","7","8","9">>
\* a character outside ASCII is written as its code point: the full-width
\* digits, and the Han characters of the xiangqi notation
FULLWIDTH_DIGITS == <<"U+FF10","U+FF11","U+FF12","U+FF13","U+FF14",
                      "U+FF15","U+FF16","U+FF17","U+FF18","U+FF19">>
HAN_NUMBERS == <<"U+4E00","U+4E8C","U+4E09","U+56DB","U+4E94","U+516D","U+4E03","U+516B","U+4E5D">>
HAN_LETTERS ==
  {"U+5E05","U+4ED5","U+76F8","U+9A6C","U+8F66","U+70AE","U+5175","U+5C06","U+58EB",
   "U+8C61","U+99AC","U+8ECA","U+7832","U+5352","U+5E25","U+4FE5","U+508C","U+5305",
   "U+8FDB","U+9032","U+9000","U+540E","U+5E73","U+524D","U+5F8C","U+4E2D"}
   \cup {HAN_NUMBERS[i] : i \in 1..9}

IndexOf(seq, c) ==
  IF \E i \in 1..Len(seq) : seq[i] = c
    THEN CHOOSE i \in 1..Len(seq) : seq[i] = c /\ \A j \in 1..(i - 1) : seq[j] # c
    ELSE 0

IsSpace(c) == c = " "
IsAlpha(c) == IndexOf(LOWER, c) > 0 \/ IndexOf(UPPER, c) > 0 \/ c \in HAN_LETTERS
\* the value of a decimal digit, -1 for any other character
DigitOf(c) ==
  IF IndexOf(DIGITS, c) > 0 THEN IndexOf(DIGITS, c) - 1
  ELSE IF IndexOf(FULLWIDTH_DIGITS, c) > 0 THEN IndexOf(FULLWIDTH_DIGITS, c) - 1 ELSE -1
UpperChar(c) == IF IndexOf(LOWER, c) > 0 THEN UPPER[IndexOf(LOWER, c)] ELSE c
StrUpper(s) == [i \in 1..Len(s) |-> UpperChar(s[i])]

\* str.strip(): without leading and trailing whitespace
StrStrip(s) ==
  IF \A i \in 1..Len(s) : IsSpace(s[i]) THEN <<>>
  ELSE LET a == CHOOSE i \in 1..Len(s) : ~IsSpace(s[i]) /\ \A j \in 1..(i - 1) : IsSpace(s[j])
           b == CHOOSE i \in 1..Len(s) : ~IsSpace(s[i]) /\ \A j \in (i + 1)..Len(s) : IsSpace(s[j])
       IN SubSeq(s, a, b)

\* s.replace(c, "")
StrRemove(s, c) == SelectSeq(s, LAMBDA ch : ch # c)

\* s.split(c): the pieces of s between the occurrences of c
RECURSIVE StrSplit(_, _)
StrSplit(s, c) ==
  IF IndexOf(s, c) = 0 THEN <<s>>
  ELSE <<SubSeq(s, 1, IndexOf(s, c) - 1)>> \o StrSplit(SubSeq(s, IndexOf(s, c) + 1, Len(s)), c)

RECURSIVE DigitsValue(_)
DigitsValue(s) ==
  IF Len(s) = 0 THEN 0
  ELSE 10 * DigitsValue(SubSeq(s, 1, Len(s) - 1)) + DigitOf(s[Len(s)])

\* int(s) for text over letters, decimal digits, signs, separators and blanks:
\* surrounding whitespace is ignored, one sign is accepted, at least one digit
\* is required; anything else raises ValueError (ok = FALSE)
PyIntOf(signed, negative, d) ==
  IF Len(d) > 0 /\ \A i \in 1..Len(d) : DigitOf(d[i]) >= 0
    THEN [ok |-> TRUE, v |-> IF negative THEN 0 - DigitsValue(d) ELSE DigitsValue(d)]
    ELSE [ok |-> FALSE, v |-> 0]
PyIntStripped(s) ==
  IF Len(s) > 0 /\ s[1] \in {"+", "-"}
    THEN PyIntOf(TRUE, s[1] = "-", SubSeq(s, 2, Len(s)))
    ELSE PyIntOf(FALSE, FALSE, s)
PyInt(s0) == PyIntStripped(StrStrip(s0))

RECURSIVE NatStr(_)
NatStr(n) == IF n < 10 THEN <<DIGITS[n + 1]>> ELSE NatStr(n \div 10) \o <<DIGITS[(n % 10) + 1]>>

(***************************************************************************)
(* Tic-tac-toe (src/games/tictactoe.py)                                    *)
(***************************************************************************)
WIN_PATTERNS ==
  << <<0, 1, 2>>, <<3, 4, 5>>, <<6, 7, 8>>, <<0, 3, 6>>,
     <<1, 4, 7>>, <<2, 5, 8>>, <<0, 4, 8>>, <<2, 4, 6>> >>

TicTacToeGame(player_id) ==
  [player_x |-> player_id, player_o |-> None,
   board |-> [i \in 0..8 |-> "NONE"],
   current_turn |-> "X", winner |-> None, is_finished |-> FALSE]

\* TicTacToeGame.join: TRUE iff the player is bound as O
TttJoin(g, player_id) ==
  IF g.player_o # None THEN Res(FALSE, "", g)
  ELSE IF player_id = g.player_x THEN Res(FALSE, "", g)
  ELSE Res(TRUE, "", [g EXCEPT !.player_o = player_id])

\* a check that looks at the rows and the columns and not at the diagonals
TttCheckRowsAndColumns(board, player) ==
  \E k \in 1..6 : \A j \in 1..3 : board[WIN_PATTERNS[k][j]] = player
\* _check_win
TttCheckWin(board, player) ==
  \E k \in 1..Len(WIN_PATTERNS) :
    \A j \in 1..3 : board[WIN_PATTERNS[k][j]] = player

TttMakeMove(g, player_id, position) ==
  IF g.is_finished THEN Res(FALSE, "finished", g)
  ELSE IF g.player_o = None THEN Res(FALSE, "waiting", g)
  ELSE IF g.current_turn = "X" /\ player_id # g.player_x THEN Res(FALSE, "turn_x", g)
  ELSE IF g.current_turn = "O" /\ player_id # g.player_o THEN Res(FALSE, "turn_o", g)
  ELSE IF position < 1 \/ position > 9 THEN Res(FALSE, "range", g)
  ELSE IF g.board[position - 1] # "NONE" THEN Res(FALSE, "occupied", g)
  ELSE
    LET b == [g.board EXCEPT ![position - 1] = g.current_turn]
        g1 == [g EXCEPT !.board = b]
    IN IF TttCheckWin(b, g.current_turn)
         THEN Res(TRUE, "win", [g1 EXCEPT !.winner = g.current_turn, !.is_finished = TRUE])
       ELSE IF \A i \in 0..8 : b[i] # "NONE"
         THEN Res(TRUE, "draw", [g1 EXCEPT !.is_finished = TRUE])
       ELSE Res(TRUE, "moved",
                [g1 EXCEPT !.current_turn = IF g.current_turn = "X" THEN "O" ELSE "X"])

TttSurrender(g, player_id) ==
  IF g.is_finished THEN Res(FALSE, "finished", g)
  ELSE IF player_id = g.player_x
    THEN Res(TRUE, "x_resigns", [g EXCEPT !.winner = "O", !.is_finished = TRUE])
  ELSE IF player_id = g.player_o
    THEN Res(TRUE, "o_resigns", [g EXCEPT !.winner = "X", !.is_finished = TRUE])
  ELSE Res(FALSE, "not_participant", g)

\* a create that replaces the room's session whatever its state
TttCreateAlways(reg, r, player_id) ==
  MRes(TRUE, "created", "game", [reg EXCEPT ![r] = TicTacToeGame(player_id)])
TttCreateGame(reg, r, player_id) ==
  IF reg[r] # NoGame /\ ~reg[r].is_finished
    THEN MRes(FALSE, "exists", "game", reg)
    ELSE MRes(TRUE, "created", "game", [reg EXCEPT ![r] = TicTacToeGame(player_id)])

TttJoinGame(reg, r, player_id) ==
  IF reg[r] = NoGame THEN MRes(FALSE, "no_game", None, reg)
  ELSE IF reg[r].is_finished THEN MRes(FALSE, "finished", None, reg)
  ELSE IF reg[r].player_o # None THEN MRes(FALSE, "full", "game", reg)
  ELSE JoinReturn(reg, r, TttJoin(reg[r], player_id))

TttMgrMakeMove(reg, r, player_id, position) ==
  IF reg[r] = NoGame THEN MRes(FALSE, "no_game", None, reg)
  ELSE MgrReturn(reg, r, TttMakeMove(reg[r], player_id, position))

TttMgrSurrender(reg, r, player_id) ==
  IF reg[r] = NoGame THEN MRes(FALSE, "no_game", None, reg)
  ELSE MgrReturn(reg, r, TttSurrender(reg[r], player_id))

\* positions a caller sends: the nine cells and one on each side of the range
TttPositions(m) ==
  CASE m = "ttt_full" -> 0..10
    [] m = "ttt" -> {0, 1, 2, 3, 4, 5}
    [] m = "ttt_tm" -> {1, 2, 3, 4, 5}
    [] OTHER -> {1, 10}

TttMarks(g) == Cardinality({i \in 0..8 : g.board[i] # "NONE"})

(***************************************************************************)
(* Coordinates shared by go, gomoku and junqi: the three parse_coordinate  *)
(* methods are the same code over their own column labels and board sizes. *)
(***************************************************************************)
\* col in labels[:nlabels], then labels.index(col)
ColumnIndex(labels, nlabels, col) ==
  LET k == IndexOf(labels, col)
  IN IF k > 0 /\ k <= nlabels THEN k - 1 ELSE -1

\* the first of four results that is not None
FirstOf(a, b, c, d) ==
  IF a # <<>> THEN a ELSE IF b # <<>> THEN b ELSE IF c # <<>> THEN c ELSE d

\* the letter form of a coordinate: column x1 (-1 if the first character is
\* no accepted letter) and the text row after it
LetterCoordinate(x1, row, nrows) ==
  IF x1 >= 0 /\ row.ok /\ 1 <= row.v /\ row.v <= nrows THEN <<x1, row.v - 1>> ELSE <<>>

\* the number form of a coordinate, from the values of its two parts
NumberCoordinate(px, py, ncols, nrows) ==
  IF px.ok /\ py.ok /\ 0 <= px.v - 1 /\ px.v - 1 < ncols /\ 0 <= py.v - 1 /\ py.v - 1 < nrows
    THEN <<px.v - 1, py.v - 1>> ELSE <<>>
NumberCoordinateOf(parts, ncols, nrows) ==
  IF Len(parts) = 2 THEN NumberCoordinate(PyInt(parts[1]), PyInt(parts[2]), ncols, nrows)
  ELSE <<>>
\* the number form with separator sep
BySep(s, sep, ncols, nrows) ==
  IF IndexOf(s, sep) > 0 THEN NumberCoordinateOf(StrSplit(s, sep), ncols, nrows) ELSE <<>>

\* parse_coordinate of the stripped upper-case text s
ParseCoordinateOf(labels, nlabels, ncols, nrows, s) ==
  FirstOf(IF Len(s) >= 2
            THEN LetterCoordinate(ColumnIndex(labels, nlabels, s[1]),
                                  PyInt(SubSeq(s, 2, Len(s))), nrows)
            ELSE <<>>,
          BySep(s, ",", ncols, nrows), BySep(s, "-", ncols, nrows), BySep(s, " ", ncols, nrows))

\* parse_coordinate: <<x, y>>, or <<>> for None.  labels[:nlabels] are the
\* column letters accepted, ncols and nrows the numbers of columns and rows.
ParseCoordinate(labels, nlabels, ncols, nrows, coord_str) ==
  ParseCoordinateOf(labels, nlabels, ncols, nrows, StrUpper(StrStrip(coord_str)))

\* get_coordinate_label of column x and row y; a column without a letter
\* raises IndexError, which is <<>> here
CoordinateLabel(labels, x, y) ==
  IF x + 1 <= Len(labels) THEN <<labels[x + 1]>> \o NatStr(y + 1) ELSE <<>>

(***************************************************************************)
(* Gomoku (src/games/gomoku.py)                                            *)
(***************************************************************************)
GMK_COLUMN_LABELS == <<"A","B","C","D","E","F","G","H","J","K","L","M","N","O">>
GmkSizes == {13, 15, 19}

GomokuGame(board_size, player_id) ==
  [board_size |-> board_size, player_black |-> player_id, player_white |-> None,
   board |-> [i \in 0..(board_size * board_size - 1) |-> "EMPTY"],
   current_turn |-> "BLACK", move_count |-> 0, last_move |-> -1,
   is_finished |-> FALSE, winner |-> None, win_line |-> <<>>]

GmkJoin(g, player_id) ==
  IF g.player_white # None THEN Res(FALSE, "", g)
  ELSE IF player_id = g.player_black THEN Res(FALSE, "", g)
  ELSE Res(TRUE, "", [g EXCEPT !.player_white = player_id])

GmkParseCoordinate(g, coord_str) ==
  ParseCoordinate(GMK_COLUMN_LABELS, g.board_size, g.board_size, g.board_size, coord_str)

\* a range test that lets the column one past the edge through
GmkOnBoardWide(n, x, y) == 0 <= x /\ x <= n /\ 0 <= y /\ y < n
\* 0 <= x < self.board_size and 0 <= y < self.board_size
GmkOnBoard(n, x, y) == 0 <= x /\ x < n /\ 0 <= y /\ y < n

\* the cells the loop "for i in range(1, 5)" appends from (x, y) in direction
\* (dx, dy): it stops at the edge and at the first cell that is not stone
RECURSIVE GmkRun(_, _, _, _, _, _, _, _)
GmkRun(board, n, x, y, dx, dy, stone, i) ==
  IF i > 4 THEN <<>>
  ELSE LET nx == x + dx * i
           ny == y + dy * i
       IN IF GmkOnBoard(n, nx, ny) /\ board[ny * n + nx] = stone
            THEN <<ny * n + nx>> \o GmkRun(board, n, x, y, dx, dy, stone, i + 1)
            ELSE <<>>

GmkDirections == << <<1, 0>>, <<0, 1>>, <<1, 1>>, <<1, -1>> >>

\* a line that is counted from the new stone in one direction only
GmkLineForward(board, n, pos, d) ==
  <<pos>> \o GmkRun(board, n, pos % n, pos \div n, GmkDirections[d][1], GmkDirections[d][2],
                    board[pos], 1)
\* the line through pos in direction d: pos, the run ahead and the run behind
GmkLine(board, n, pos, d) ==
  LET x == pos % n
      y == pos \div n
      dx == GmkDirections[d][1]
      dy == GmkDirections[d][2]
  IN <<pos>> \o GmkRun(board, n, x, y, dx, dy, board[pos], 1)
             \o GmkRun(board, n, x, y, 0 - dx, 0 - dy, board[pos], 1)

\* _check_win: the line of the first direction with five or more, <<>> for None
GmkCheckWin(board, n, pos) ==
  IF board[pos] = "EMPTY" THEN <<>>
  ELSE IF \E d \in 1..4 : Len(GmkLine(board, n, pos, d)) >= 5
    THEN GmkLine(board, n, pos,
                 CHOOSE d \in 1..4 : /\ Len(GmkLine(board, n, pos, d)) >= 5
                                     /\ \A e \in 1..(d - 1) : Len(GmkLine(board, n, pos, e)) < 5)
    ELSE <<>>

GmkMakeMove(g, player_id, x, y) ==
  IF g.is_finished THEN Res(FALSE, "finished", g)
  ELSE IF g.player_white = None THEN Res(FALSE, "waiting", g)
  ELSE IF g.current_turn = "BLACK" /\ player_id # g.player_black THEN Res(FALSE, "turn_black", g)
  ELSE IF g.current_turn = "WHITE" /\ player_id # g.player_white THEN Res(FALSE, "turn_white", g)
  ELSE IF ~GmkOnBoard(g.board_size, x, y) THEN Res(FALSE, "range", g)
  ELSE
    LET pos == y * g.board_size + x
    IN IF g.board[pos] # "EMPTY" THEN Res(FALSE, "occupied", g)
       ELSE
         LET b == [g.board EXCEPT ![pos] = g.current_turn]
             g1 == [g EXCEPT !.board = b, !.last_move = pos, !.move_count = @ + 1]
             win_line == GmkCheckWin(b, g.board_size, pos)
         IN IF win_line # <<>>
              THEN Res(TRUE, "five", [g1 EXCEPT !.is_finished = TRUE,
                                                !.winner = g.current_turn,
                                                !.win_line = win_line])
            ELSE IF g1.move_count >= g.board_size * g.board_size
              THEN Res(TRUE, "full", [g1 EXCEPT !.is_finished = TRUE])
            ELSE Res(TRUE, "moved",
                     [g1 EXCEPT !.current_turn =
                        IF g.current_turn = "BLACK" THEN "WHITE" ELSE "BLACK"])

GmkSurrender(g, player_id) ==
  IF g.is_finished THEN Res(FALSE, "finished", g)
  ELSE IF player_id = g.player_black
    THEN Res(TRUE, "black_resigns", [g EXCEPT !.winner = "WHITE", !.is_finished = TRUE])
  ELSE IF player_id = g.player_white
    THEN Res(TRUE, "white_resigns", [g EXCEPT !.winner = "BLACK", !.is_finished = TRUE])
  ELSE Res(FALSE, "not_participant", g)

GmkCreateGame(reg, r, player_id, board_size) ==
  IF board_size \notin GmkSizes THEN MRes(FALSE, "bad_size", None, reg)
  ELSE IF reg[r] # NoGame /\ ~reg[r].is_finished
    THEN MRes(FALSE, "exists", "game", reg)
  ELSE MRes(TRUE, "created", "game", [reg EXCEPT ![r] = GomokuGame(board_size, player_id)])

GmkJoinGame(reg, r, player_id) ==
  IF reg[r] = NoGame THEN MRes(FALSE, "no_game", None, reg)
  ELSE IF reg[r].is_finished THEN MRes(FALSE, "finished", None, reg)
  ELSE IF reg[r].player_white # None THEN MRes(FALSE, "full", "game", reg)
  ELSE JoinReturn(reg, r, GmkJoin(reg[r], player_id))

\* make_move of the manager once the text is parsed to coord
GmkMoveAt(reg, r, player_id, coord) ==
  IF coord = <<>> THEN MRes(FALSE, "bad_coordinate", None, reg)
  ELSE MgrReturn(reg, r, GmkMakeMove(reg[r], player_id, coord[1], coord[2]))
GmkMgrMakeMove(reg, r, player_id, coord_str) ==
  IF reg[r] = NoGame THEN MRes(FALSE, "no_game", None, reg)
  ELSE GmkMoveAt(reg, r, player_id, GmkParseCoordinate(reg[r], coord_str))

GmkMgrSurrender(reg, r, player_id) ==
  IF reg[r] = NoGame THEN MRes(FALSE, "no_game", None, reg)
  ELSE MgrReturn(reg, r, GmkSurrender(reg[r], player_id))

(***************************************************************************)
(* Go (src/games/go.py).  Scores and komi are kept in half points          *)
(* (score_black = 2 * the float of the code), so komi 6.5 is 13.  A board  *)
(* (the list of board_size * board_size stones) is kept as the set of the  *)
(* cells holding a black stone and the set of those holding a white one;   *)
(* every other cell is EMPTY.  An Optional board is a sequence of at most  *)
(* one board.                                                              *)
(***************************************************************************)
\* an alphabet that keeps the letter I
GoLabelsWithI == <<"A","B","C","D","E","F","G","H","I","J",
                   "K","L","M","N","O","P","Q","R","S">>
GO_COLUMN_LABELS == <<"A","B","C","D","E","F","G","H","J","K",
                      "L","M","N","O","P","Q","R","S","T">>
GoSizes == {9, 13, 19}
KOMI == 13

GoEmptyBoard == [BLACK |-> {}, WHITE |-> {}]
GoCells(n) == 0..(n * n - 1)
\* self.board[pos]
GoStone(board, pos) ==
  IF pos \in board.BLACK THEN "BLACK" ELSE IF pos \in board.WHITE THEN "WHITE" ELSE "EMPTY"
\* self.board[pos] = stone
GoPut(board, pos, stone) ==
  IF stone = "BLACK" THEN [BLACK |-> board.BLACK \cup {pos}, WHITE |-> board.WHITE \ {pos}]
  ELSE IF stone = "WHITE" THEN [BLACK |-> board.BLACK \ {pos}, WHITE |-> board.WHITE \cup {pos}]
  ELSE [BLACK |-> board.BLACK \ {pos}, WHITE |-> board.WHITE \ {pos}]

GoGame(board_size, player_id) ==
  [board_size |-> board_size, player_black |-> player_id, player_white |-> None,
   board |-> GoEmptyBoard,
   current_turn |-> "BLACK", captured_black |-> 0, captured_white |-> 0,
   move_count |-> 0, last_move |-> -1, ko_point |-> -1,
   is_finished |-> FALSE, winner |-> None, consecutive_passes |-> 0,
   score_black |-> 0, score_white |-> 0, komi |-> KOMI,
   board_history |-> <<>>, last_board_state |-> <<>>, last_captured |-> 0,
   last_player |-> None, can_undo |-> FALSE, score_request_by |-> None]

\* _get_neighbors, in the order the code appends them: left, right, down, up
GoNeighbors(n, pos) ==
  LET x == pos % n
      y == pos \div n
  IN (IF x > 0 THEN <<pos - 1>> ELSE <<>>)
     \o (IF x < n - 1 THEN <<pos + 1>> ELSE <<>>)
     \o (IF y > 0 THEN <<pos - n>> ELSE <<>>)
     \o (IF y < n - 1 THEN <<pos + n>> ELSE <<>>)

GoNeighborSet(n, pos) ==
  {q \in {pos - 1, pos + 1, pos - n, pos + n} :
     \/ q = pos - 1 /\ pos % n > 0
     \/ q = pos + 1 /\ pos % n < n - 1
     \/ q = pos - n /\ pos \div n > 0
     \/ q = pos + n /\ pos \div n < n - 1}

\* the search of _find_group and of count_territory: the cells of colour c
\* reached over neighbours from the cells seen, of which frontier are new
RECURSIVE GoFlood(_, _, _, _, _)
GoFlood(board, n, c, seen, frontier) ==
  LET more == {q \in UNION {GoNeighborSet(n, p) : p \in frontier} : GoStone(board, q) = c} \ seen
  IN IF more = {} THEN seen ELSE GoFlood(board, n, c, seen \cup more, more)

\* _find_group
GoFindGroup(board, n, pos) ==
  IF GoStone(board, pos) = "EMPTY" THEN {} ELSE GoFlood(board, n, GoStone(board, pos), {pos}, {pos})

\* a count of liberties that takes every adjacent cell outside the group for one
GoCountOpenNeighbors(board, n, group) ==
  Cardinality(UNION {GoNeighborSet(n, p) : p \in group} \ group)
\* a count that finds a liberty for every group
GoCountOneLiberty(board, n, group) == 1
\* _count_liberties
GoCountLiberties(board, n, group) ==
  Cardinality({q \in UNION {GoNeighborSet(n, p) : p \in group} : GoStone(board, q) = "EMPTY"})

\* a capture that takes one stone of the group off the board
GoCaptureOneStone(board, group) ==
  LET one == {CHOOSE q \in group : TRUE}
  IN [BLACK |-> board.BLACK \ one, WHITE |-> board.WHITE \ one]
\* _capture_stones: the board without the group
GoCaptureStones(board, group) ==
  [BLACK |-> board.BLACK \ group, WHITE |-> board.WHITE \ group]

GoOpponent(stone) == IF stone = "BLACK" THEN "WHITE" ELSE "BLACK"

\* the loop of make_move over the neighbours of the new stone, from the i-th:
\* the board and the number of stones captured
RECURSIVE GoCaptureLoop(_, _, _, _, _, _)
GoCaptureLoop(board, n, nbrs, i, opponent, captured) ==
  IF i > Len(nbrs) THEN [board |-> board, captured |-> captured]
  ELSE IF GoStone(board, nbrs[i]) = opponent
    THEN LET group == GoFindGroup(board, n, nbrs[i])
         IN IF GoCountLiberties(board, n, group) = 0
              THEN GoCaptureLoop(GoCaptureStones(board, group), n, nbrs, i + 1,
                                 opponent, captured + Cardinality(group))
              ELSE GoCaptureLoop(board, n, nbrs, i + 1, opponent, captured)
  ELSE GoCaptureLoop(board, n, nbrs, i + 1, opponent, captured)

\* a test of the new position against the last position of the history alone
GoIsLastOfHistory(history, board) == Len(history) > 0 /\ history[Len(history)] = board
\* new_hash in self.board_history: the hash is the tuple of the cells' values
GoInHistory(history, board) == \E k \in 1..Len(history) : history[k] = board

\* a placement that forgets to put the saved board back
GoKeepTriedBoard(g, saved_board) == g
\* self.board = saved_board
GoRollback(g, saved_board) == [g EXCEPT !.board = saved_board]

GoMakeMove(g, player_id, x, y) ==
  IF g.is_finished THEN Res(FALSE, "finished", g)
  ELSE IF g.player_white = None THEN Res(FALSE, "waiting", g)
  ELSE IF g.current_turn = "BLACK" /\ player_id # g.player_black THEN Res(FALSE, "turn_black", g)
  ELSE IF g.current_turn = "WHITE" /\ player_id # g.player_white THEN Res(FALSE, "turn_white", g)
  ELSE IF ~(0 <= x /\ x < g.board_size /\ 0 <= y /\ y < g.board_size)
    THEN Res(FALSE, "range", g)
  ELSE
    LET n == g.board_size
        pos == y * n + x
        saved_board == g.board
        stone == g.current_turn
        opponent == GoOpponent(stone)
        cap == GoCaptureLoop(GoPut(g.board, pos, stone), n,
                             GoNeighbors(n, pos), 1, opponent, 0)
        my_group == GoFindGroup(cap.board, n, pos)
    IN IF GoStone(g.board, pos) # "EMPTY" THEN Res(FALSE, "occupied", g)
       ELSE IF GoCountLiberties(cap.board, n, my_group) = 0
         THEN Res(FALSE, "suicide", GoRollback([g EXCEPT !.board = cap.board], saved_board))
       ELSE IF GoInHistory(g.board_history, cap.board)
         THEN Res(FALSE, "superko", GoRollback([g EXCEPT !.board = cap.board], saved_board))
       ELSE Res(TRUE, "moved",
                [g EXCEPT !.board = cap.board,
                          !.captured_white = IF stone = "BLACK" THEN @ + cap.captured ELSE @,
                          !.captured_black = IF stone = "BLACK" THEN @ ELSE @ + cap.captured,
                          !.board_history = Append(@, cap.board),
                          !.last_board_state = <<saved_board>>,
                          !.last_captured = cap.captured,
                          !.last_player = stone,
                          !.can_undo = TRUE,
                          !.last_move = pos,
                          !.move_count = @ + 1,
                          !.consecutive_passes = 0,
                          !.ko_point = -1,
                          !.score_request_by = None,
                          !.current_turn = opponent])

\* the empty region of pos and the colours of the stones next to it
GoRegion(board, n, pos) == GoFlood(board, n, "EMPTY", {pos}, {pos})
\* borders that keep one colour of those seen
GoOneBorder(board, n, region) ==
  LET seen == {GoStone(board, q) :
                 q \in {q \in UNION {GoNeighborSet(n, p) : p \in region} : GoStone(board, q) # "EMPTY"}}
  IN IF seen = {} THEN {} ELSE {CHOOSE c \in seen : TRUE}
GoBorders(board, n, region) ==
  {GoStone(board, q) :
     q \in {q \in UNION {GoNeighborSet(n, p) : p \in region} : GoStone(board, q) # "EMPTY"}}

\* the loop of count_territory over the cells from pos: the territory of
\* each colour in the regions not visited before
RECURSIVE GoTerritoryLoop(_, _, _, _, _, _)
GoTerritoryLoop(board, n, pos, visited, black_territory, white_territory) ==
  IF pos >= n * n THEN [black |-> black_territory, white |-> white_territory]
  ELSE IF pos \in visited \/ GoStone(board, pos) # "EMPTY"
    THEN GoTerritoryLoop(board, n, pos + 1, visited, black_territory, white_territory)
  ELSE LET region == GoRegion(board, n, pos)
           borders == GoBorders(board, n, region)
       IN GoTerritoryLoop(board, n, pos + 1, visited \cup region,
            IF borders = {"BLACK"} THEN black_territory + Cardinality(region) ELSE black_territory,
            IF borders = {"WHITE"} THEN white_territory + Cardinality(region) ELSE white_territory)

\* count_territory, in half points
GoCountTerritory(g) ==
  LET n == g.board_size
      black_stones == Cardinality({p \in GoCells(n) : GoStone(g.board, p) = "BLACK"})
      white_stones == Cardinality({p \in GoCells(n) : GoStone(g.board, p) = "WHITE"})
      t == GoTerritoryLoop(g.board, n, 0, {}, 0, 0)
  IN [score_b |-> 2 * (black_stones + t.black),
      score_w |-> 2 * (white_stones + t.white) + g.komi,
      black_stones |-> black_stones, white_stones |-> white_stones,
      black_territory |-> t.black, white_territory |-> t.white]

\* a scoring that names the winner by stones and territory without komi
GoFinishWithoutKomi(g) ==
  LET sc == GoCountTerritory(g)
  IN [g EXCEPT !.score_black = sc.score_b, !.score_white = sc.score_w,
               !.winner = IF sc.score_b > sc.score_w - g.komi THEN "BLACK"
                          ELSE IF sc.score_w - g.komi > sc.score_b THEN "WHITE" ELSE @]
\* _finish_with_score
GoFinishWithScore(g) ==
  LET sc == GoCountTerritory(g)
  IN [g EXCEPT !.score_black = sc.score_b, !.score_white = sc.score_w,
               !.winner = IF sc.score_b > sc.score_w THEN "BLACK"
                          ELSE IF sc.score_w > sc.score_b THEN "WHITE" ELSE @]

\* a pass that ends the game at the first pass
GoPassEndsAtOnce(g, player_id) ==
  IF g.is_finished THEN Res(FALSE, "finished", g)
  ELSE IF g.player_white = None THEN Res(FALSE, "waiting", g)
  ELSE IF g.current_turn = "BLACK" /\ player_id # g.player_black THEN Res(FALSE, "turn_black", g)
  ELSE IF g.current_turn = "WHITE" /\ player_id # g.player_white THEN Res(FALSE, "turn_white", g)
  ELSE
    LET g1 == [g EXCEPT !.consecutive_passes = @ + 1, !.ko_point = -1,
                        !.can_undo = FALSE, !.score_request_by = None,
                        !.current_turn = GoOpponent(g.current_turn)]
    IN IF g1.consecutive_passes >= 1
         THEN Res(TRUE, "two_passes", GoFinishWithScore([g1 EXCEPT !.is_finished = TRUE]))
         ELSE Res(TRUE, "pass", g1)

GoPassTurn(g, player_id) ==
  IF g.is_finished THEN Res(FALSE, "finished", g)
  ELSE IF g.player_white = None THEN Res(FALSE, "waiting", g)
  ELSE IF g.current_turn = "BLACK" /\ player_id # g.player_black THEN Res(FALSE, "turn_black", g)
  ELSE IF g.current_turn = "WHITE" /\ player_id # g.player_white THEN Res(FALSE, "turn_white", g)
  ELSE
    LET g1 == [g EXCEPT !.consecutive_passes = @ + 1, !.ko_point = -1,
                        !.can_undo = FALSE, !.score_request_by = None,
                        !.current_turn = GoOpponent(g.current_turn)]
    IN IF g1.consecutive_passes >= 2
         THEN Res(TRUE, "two_passes", GoFinishWithScore([g1 EXCEPT !.is_finished = TRUE]))
         ELSE Res(TRUE, "pass", g1)

\* an undo that leaves the position it takes back in the history
GoUndoKeepsHistory(g, player_id) ==
  IF g.is_finished THEN Res(FALSE, "finished", g)
  ELSE IF ~g.can_undo \/ g.last_board_state = <<>> THEN Res(FALSE, "cannot_undo", g)
  ELSE IF g.last_player = "BLACK" /\ player_id # g.player_black THEN Res(FALSE, "not_last_mover", g)
  ELSE IF g.last_player = "WHITE" /\ player_id # g.player_white THEN Res(FALSE, "not_last_mover", g)
  ELSE Res(TRUE, "undone",
           [g EXCEPT !.board = g.last_board_state[1],
                     !.captured_white = IF g.last_player = "BLACK" THEN @ - g.last_captured ELSE @,
                     !.captured_black = IF g.last_player = "BLACK" THEN @ ELSE @ - g.last_captured,
                     !.current_turn = g.last_player,
                     !.move_count = @ - 1,
                     !.last_move = -1,
                     !.can_undo = FALSE,
                     !.last_board_state = <<>>])

\* an undo that any caller may ask for
GoUndoByAnyone(g, player_id) ==
  IF g.is_finished THEN Res(FALSE, "finished", g)
  ELSE IF ~g.can_undo \/ g.last_board_state = <<>> THEN Res(FALSE, "cannot_undo", g)
  ELSE Res(TRUE, "undone",
           [g EXCEPT !.board = g.last_board_state[1],
                     !.captured_white = IF g.last_player = "BLACK" THEN @ - g.last_captured ELSE @,
                     !.captured_black = IF g.last_player = "BLACK" THEN @ ELSE @ - g.last_captured,
                     !.board_history = IF Len(@) > 0 THEN SubSeq(@, 1, Len(@) - 1) ELSE @,
                     !.current_turn = g.last_player,
                     !.move_count = @ - 1,
                     !.last_move = -1,
                     !.can_undo = FALSE,
                     !.last_board_state = <<>>])

\* an undo that puts the board back and leaves the capture tallies
GoUndoKeepsTallies(g, player_id) ==
  IF g.is_finished THEN Res(FALSE, "finished", g)
  ELSE IF ~g.can_undo \/ g.last_board_state = <<>> THEN Res(FALSE, "cannot_undo", g)
  ELSE IF g.last_player = "BLACK" /\ player_id # g.player_black THEN Res(FALSE, "not_last_mover", g)
  ELSE IF g.last_player = "WHITE" /\ player_id # g.player_white THEN Res(FALSE, "not_last_mover", g)
  ELSE Res(TRUE, "undone",
           [g EXCEPT !.board = g.last_board_state[1],
                     !.board_history = IF Len(@) > 0 THEN SubSeq(@, 1, Len(@) - 1) ELSE @,
                     !.current_turn = g.last_player,
                     !.move_count = @ - 1,
                     !.last_move = -1,
                     !.can_undo = FALSE,
                     !.last_board_state = <<>>])

GoUndo(g, player_id) ==
  IF g.is_finished THEN Res(FALSE, "finished", g)
  ELSE IF ~g.can_undo \/ g.last_board_state = <<>> THEN Res(FALSE, "cannot_undo", g)
  ELSE IF g.last_player = "BLACK" /\ player_id # g.player_black THEN Res(FALSE, "not_last_mover", g)
  ELSE IF g.last_player = "WHITE" /\ player_id # g.player_white THEN Res(FALSE, "not_last_mover", g)
  ELSE Res(TRUE, "undone",
           [g EXCEPT !.board = g.last_board_state[1],
                     !.captured_white = IF g.last_player = "BLACK" THEN @ - g.last_captured ELSE @,
                     !.captured_black = IF g.last_player = "BLACK" THEN @ ELSE @ - g.last_captured,
                     !.board_history = IF Len(@) > 0 THEN SubSeq(@, 1, Len(@) - 1) ELSE @,
                     !.current_turn = g.last_player,
                     !.move_count = @ - 1,
                     !.last_move = -1,
                     !.can_undo = FALSE,
                     !.last_board_state = <<>>])

\* a request that takes the requester's own second request for the agreement
GoRequestScoreTwice(g, player_id) ==
  IF g.is_finished THEN Res(FALSE, "finished", g)
  ELSE IF player_id \notin {g.player_black, g.player_white} THEN Res(FALSE, "not_participant", g)
  ELSE IF g.score_request_by = None
    THEN Res(TRUE, "request_pending", [g EXCEPT !.score_request_by = player_id])
  ELSE Res(TRUE, "agreed", GoFinishWithScore([g EXCEPT !.is_finished = TRUE]))

GoRequestScore(g, player_id) ==
  IF g.is_finished THEN Res(FALSE, "finished", g)
  ELSE IF player_id \notin {g.player_black, g.player_white} THEN Res(FALSE, "not_participant", g)
  ELSE IF g.score_request_by = None
    THEN Res(TRUE, "request_pending", [g EXCEPT !.score_request_by = player_id])
  ELSE IF g.score_request_by = player_id THEN Res(FALSE, "already_requested", g)
  ELSE Res(TRUE, "agreed", GoFinishWithScore([g EXCEPT !.is_finished = TRUE]))

\* a rejection that also takes the right to undo away
GoRejectScoreAndUndo(g, player_id) ==
  IF g.score_request_by = None THEN Res(FALSE, "no_request", g)
  ELSE IF player_id = g.score_request_by THEN Res(FALSE, "own_request", g)
  ELSE Res(TRUE, "rejected", [g EXCEPT !.score_request_by = None, !.can_undo = FALSE])

GoRejectScore(g, player_id) ==
  IF g.score_request_by = None THEN Res(FALSE, "no_request", g)
  ELSE IF player_id = g.score_request_by THEN Res(FALSE, "own_request", g)
  ELSE Res(TRUE, "rejected", [g EXCEPT !.score_request_by = None])

GoSurrender(g, player_id) ==
  IF g.is_finished THEN Res(FALSE, "finished", g)
  ELSE IF player_id = g.player_black
    THEN Res(TRUE, "black_resigns", [g EXCEPT !.winner = "WHITE", !.is_finished = TRUE])
  ELSE IF player_id = g.player_white
    THEN Res(TRUE, "white_resigns", [g EXCEPT !.winner = "BLACK", !.is_finished = TRUE])
  ELSE Res(FALSE, "not_participant", g)

GoJoin(g, player_id) ==
  IF g.player_white # None THEN Res(FALSE, "", g)
  ELSE IF player_id = g.player_black THEN Res(FALSE, "", g)
  ELSE Res(TRUE, "", [g EXCEPT !.player_white = player_id])

GoParseCoordinate(g, coord_str) ==
  ParseCoordinate(GO_COLUMN_LABELS, g.board_size, g.board_size, g.board_size, coord_str)

GoCreateGame(reg, r, player_id, board_size) ==
  IF board_size \notin GoSizes THEN MRes(FALSE, "bad_size", None, reg)
  ELSE IF reg[r] # NoGame /\ ~reg[r].is_finished
    THEN MRes(FALSE, "exists", "game", reg)
  ELSE MRes(TRUE, "created", "game", [reg EXCEPT ![r] = GoGame(board_size, player_id)])

GoJoinGame(reg, r, player_id) ==
  IF reg[r] = NoGame THEN MRes(FALSE, "no_game", None, reg)
  ELSE IF reg[r].is_finished THEN MRes(FALSE, "finished", None, reg)
  ELSE IF reg[r].player_white # None THEN MRes(FALSE, "full", "game", reg)
  ELSE JoinReturn(reg, r, GoJoin(reg[r], player_id))

\* make_move of the manager once the text is parsed to coord
GoMoveAt(reg, r, player_id, coord) ==
  IF coord = <<>> THEN MRes(FALSE, "bad_coordinate", None, reg)
  ELSE MgrReturn(reg, r, GoMakeMove(reg[r], player_id, coord[1], coord[2]))
GoMgrMakeMove(reg, r, player_id, coord_str) ==
  IF reg[r] = NoGame THEN MRes(FALSE, "no_game", None, reg)
  ELSE GoMoveAt(reg, r, player_id, GoParseCoordinate(reg[r], coord_str))

GoMgrPassTurn(reg, r, player_id) ==
  IF reg[r] = NoGame THEN MRes(FALSE, "no_game", None, reg)
  ELSE MgrReturn(reg, r, GoPassTurn(reg[r], player_id))
GoMgrSurrender(reg, r, player_id) ==
  IF reg[r] = NoGame THEN MRes(FALSE, "no_game", None, reg)
  ELSE MgrReturn(reg, r, GoSurrender(reg[r], player_id))
GoMgrUndo(reg, r, player_id) ==
  IF reg[r] = NoGame THEN MRes(FALSE, "no_game", None, reg)
  ELSE MgrReturn(reg, r, GoUndo(reg[r], player_id))
GoMgrRequestScore(reg, r, player_id) ==
  IF reg[r] = NoGame THEN MRes(FALSE, "no_game", None, reg)
  ELSE MgrReturn(reg, r, GoRequestScore(reg[r], player_id))
GoMgrRejectScore(reg, r, player_id) ==
  IF reg[r] = NoGame THEN MRes(FALSE, "no_game", None, reg)
  ELSE MgrReturn(reg, r, GoRejectScore(reg[r], player_id))
\* count_score: looks the session up and changes nothing
GoMgrCountScore(reg, r) ==
  IF reg[r] = NoGame THEN MRes(FALSE, "no_game", None, reg)
  ELSE MRes(TRUE, "", "game", reg)

(***************************************************************************)
(* Xiangqi (src/games/xiangqi.py).  Cell pos is row pos \div 9 (row 0 is   *)
(* red's back rank) and column pos % 9.                                    *)
(***************************************************************************)
RED_PIECES == {"R_KING", "R_ADVISOR", "R_ELEPHANT", "R_HORSE", "R_CHARIOT", "R_CANNON", "R_SOLDIER"}
BLACK_PIECES == {"B_KING", "B_ADVISOR", "B_ELEPHANT", "B_HORSE", "B_CHARIOT", "B_CANNON", "B_SOLDIER"}
XQ_COLUMN_LABELS == <<"A","B","C","D","E","F","G","H","I">>

\* the ten ranks from red's back rank (row 0) to black's (row 9)
INITIAL_BOARD ==
  LET back(s) == <<s \o "_CHARIOT", s \o "_HORSE", s \o "_ELEPHANT", s \o "_ADVISOR",
                   s \o "_KING", s \o "_ADVISOR", s \o "_ELEPHANT", s \o "_HORSE",
                   s \o "_CHARIOT">>
      empty == [c \in 1..9 |-> "EMPTY"]
      cannons(s) == [c \in 1..9 |-> IF c \in {2, 8} THEN s \o "_CANNON" ELSE "EMPTY"]
      soldiers(s) == [c \in 1..9 |-> IF c \in {1, 3, 5, 7, 9} THEN s \o "_SOLDIER" ELSE "EMPTY"]
      rows == back("R") \o empty \o cannons("R") \o soldiers("R") \o empty
              \o empty \o soldiers("B") \o cannons("B") \o empty \o back("B")
  IN [pos \in 0..89 |-> rows[pos + 1]]

get_piece_side(piece) ==
  IF piece = "EMPTY" THEN None ELSE IF piece \in RED_PIECES THEN "RED" ELSE "BLACK"

XiangqiGame(player_id) ==
  [player_red |-> player_id, player_black |-> None, board |-> INITIAL_BOARD,
   current_turn |-> "RED", move_count |-> 0, last_move |-> <<>>,
   is_finished |-> FALSE, winner |-> None, in_check |-> FALSE]

XqOpponent(side) == IF side = "RED" THEN "BLACK" ELSE "RED"
Abs(v) == IF v < 0 THEN -v ELSE v
XqMin(a, b) == IF a < b THEN a ELSE b
XqMax(a, b) == IF a < b THEN b ELSE a

XqJoin(g, player_id) ==
  IF g.player_black # None THEN Res(FALSE, "", g)
  ELSE IF player_id = g.player_red THEN Res(FALSE, "", g)
  ELSE Res(TRUE, "", [g EXCEPT !.player_black = player_id])

\* _find_king: the first cell holding the king of the side, -1 for None
XqFindKing(board, side) ==
  LET king == IF side = "RED" THEN "R_KING" ELSE "B_KING"
      at == {i \in 0..89 : board[i] = king}
  IN IF at = {} THEN -1 ELSE CHOOSE i \in at : \A j \in at : i <= j

XqIsInPalace(row, col, side) ==
  IF col < 3 \/ col > 5 THEN FALSE
  ELSE IF side = "RED" THEN 0 <= row /\ row <= 2
  ELSE 7 <= row /\ row <= 9

\* a river that both sides cross where red does
XqIsAcrossRiverOfRed(row, side) == row >= 5
\* a river that no piece is ever across
XqNeverAcrossRiver(row, side) == FALSE
XqIsAcrossRiver(row, side) == IF side = "RED" THEN row >= 5 ELSE row <= 4

\* a count of the pieces between that looks along ranks only
XqPiecesBetweenOnRank(board, from_pos, to_pos) ==
  IF from_pos \div 9 = to_pos \div 9
    THEN Cardinality({c \in (XqMin(from_pos % 9, to_pos % 9) + 1)..(XqMax(from_pos % 9, to_pos % 9) - 1) :
                        board[(from_pos \div 9) * 9 + c] # "EMPTY"})
  ELSE 0

\* _get_pieces_between
XqPiecesBetween(board, from_pos, to_pos) ==
  LET from_row == from_pos \div 9
      from_col == from_pos % 9
      to_row == to_pos \div 9
      to_col == to_pos % 9
  IN IF from_row = to_row
       THEN Cardinality({c \in (XqMin(from_col, to_col) + 1)..(XqMax(from_col, to_col) - 1) :
                           board[from_row * 9 + c] # "EMPTY"})
     ELSE IF from_col = to_col
       THEN Cardinality({r \in (XqMin(from_row, to_row) + 1)..(XqMax(from_row, to_row) - 1) :
                           board[r * 9 + from_col] # "EMPTY"})
     ELSE 0

\* _is_valid_piece_move
XqIsValidPieceMove(board, from_pos, to_pos) ==
  LET piece == board[from_pos]
      from_row == from_pos \div 9
      from_col == from_pos % 9
      to_row == to_pos \div 9
      to_col == to_pos % 9
      target == board[to_pos]
      side == get_piece_side(piece)
      dr == to_row - from_row
      dc == to_col - from_col
  IN IF piece = "EMPTY" THEN FALSE
     ELSE IF from_pos = to_pos THEN FALSE
     ELSE IF target # "EMPTY" /\ get_piece_side(piece) = get_piece_side(target) THEN FALSE
     ELSE IF piece \in {"R_KING", "B_KING"}
       THEN XqIsInPalace(to_row, to_col, side) /\ Abs(dr) + Abs(dc) = 1
     ELSE IF piece \in {"R_ADVISOR", "B_ADVISOR"}
       THEN XqIsInPalace(to_row, to_col, side) /\ Abs(dr) = 1 /\ Abs(dc) = 1
     ELSE IF piece \in {"R_ELEPHANT", "B_ELEPHANT"}
       THEN /\ ~XqIsAcrossRiver(to_row, side)
            /\ Abs(dr) = 2 /\ Abs(dc) = 2
            /\ board[(from_row + dr \div 2) * 9 + (from_col + dc \div 2)] = "EMPTY"
     ELSE IF piece \in {"R_HORSE", "B_HORSE"}
       THEN /\ (Abs(dr) = 2 /\ Abs(dc) = 1) \/ (Abs(dr) = 1 /\ Abs(dc) = 2)
            /\ LET leg_row == IF Abs(dr) = 2 THEN from_row + (IF dr > 0 THEN 1 ELSE -1) ELSE from_row
                   leg_col == IF Abs(dr) = 2 THEN from_col ELSE from_col + (IF dc > 0 THEN 1 ELSE -1)
               IN board[leg_row * 9 + leg_col] = "EMPTY"
     ELSE IF piece \in {"R_CHARIOT", "B_CHARIOT"}
       THEN (dr = 0 \/ dc = 0) /\ XqPiecesBetween(board, from_pos, to_pos) = 0
     ELSE IF piece \in {"R_CANNON", "B_CANNON"}
       THEN /\ dr = 0 \/ dc = 0
            /\ IF target = "EMPTY" THEN XqPiecesBetween(board, from_pos, to_pos) = 0
               ELSE XqPiecesBetween(board, from_pos, to_pos) = 1
     ELSE IF piece \in {"R_SOLDIER", "B_SOLDIER"}
       THEN LET fwd == IF side = "RED" THEN 1 ELSE -1
            IN IF ~XqIsAcrossRiver(from_row, side) THEN dr = fwd /\ dc = 0
               ELSE (dr = fwd /\ dc = 0) \/ (dr = 0 /\ Abs(dc) = 1)
     ELSE FALSE

\* kings that are never taken to face each other
XqKingsNeverFacing(board) == FALSE

\* _kings_facing
XqKingsFacing(board) ==
  LET red_king_pos == XqFindKing(board, "RED")
      black_king_pos == XqFindKing(board, "BLACK")
  IN IF red_king_pos = -1 \/ black_king_pos = -1 THEN FALSE
     ELSE IF red_king_pos % 9 # black_king_pos % 9 THEN FALSE
     ELSE \A r \in (red_king_pos \div 9 + 1)..(black_king_pos \div 9 - 1) :
            board[r * 9 + (red_king_pos % 9)] = "EMPTY"

\* a check that is seen only when the kings face or the king is gone
XqIsInCheckByKing(board, side) ==
  IF XqFindKing(board, side) = -1 THEN TRUE ELSE XqKingsFacing(board)

\* a test that finds no king in check
XqIsNeverInCheck(board, side) == FALSE
\* _is_in_check
XqIsInCheck(board, side) ==
  LET king_pos == XqFindKing(board, side)
  IN IF king_pos = -1 THEN TRUE
     ELSE \/ \E i \in 0..89 : /\ get_piece_side(board[i]) = XqOpponent(side)
                              /\ XqIsValidPieceMove(board, i, king_pos)
          \/ XqKingsFacing(board)

\* the board after the piece of from_pos is put on to_pos
XqMoved(board, from_pos, to_pos) ==
  [board EXCEPT ![to_pos] = board[from_pos], ![from_pos] = "EMPTY"]

\* a search that takes every move of a piece of the side for a way out
XqHasPieceMove(board, side) ==
  \E from_pos \in 0..89 :
    /\ get_piece_side(board[from_pos]) = side
    /\ \E to_pos \in 0..89 : XqIsValidPieceMove(board, from_pos, to_pos)

\* _has_valid_move: the board is restored after every simulated move
XqHasValidMove(board, side) ==
  \E from_pos \in 0..89 :
    /\ get_piece_side(board[from_pos]) = side
    /\ \E to_pos \in 0..89 :
         /\ XqIsValidPieceMove(board, from_pos, to_pos)
         /\ LET b == XqMoved(board, from_pos, to_pos)
            IN ~(XqIsInCheck(b, side) \/ XqKingsFacing(b))

XqMakeMove(g, player_id, from_pos, to_pos) ==
  IF g.is_finished THEN Res(FALSE, "finished", g)
  ELSE IF g.player_black = None THEN Res(FALSE, "waiting", g)
  ELSE IF g.current_turn = "RED" /\ player_id # g.player_red THEN Res(FALSE, "turn_red", g)
  ELSE IF g.current_turn = "BLACK" /\ player_id # g.player_black THEN Res(FALSE, "turn_black", g)
  ELSE IF ~(0 <= from_pos /\ from_pos < 90 /\ 0 <= to_pos /\ to_pos < 90)
    THEN Res(FALSE, "range", g)
  ELSE IF g.board[from_pos] = "EMPTY" THEN Res(FALSE, "no_piece", g)
  ELSE IF get_piece_side(g.board[from_pos]) # g.current_turn THEN Res(FALSE, "not_own", g)
  ELSE IF ~XqIsValidPieceMove(g.board, from_pos, to_pos) THEN Res(FALSE, "illegal", g)
  ELSE
    LET piece == g.board[from_pos]
        target == g.board[to_pos]
        b == XqMoved(g.board, from_pos, to_pos)
        opponent == XqOpponent(g.current_turn)
    IN IF XqIsInCheck(b, g.current_turn) \/ XqKingsFacing(b)
         THEN Res(FALSE, "self_check",
                  [g EXCEPT !.board = [b EXCEPT ![from_pos] = piece, ![to_pos] = target]])
       ELSE
         LET g1 == [g EXCEPT !.board = b, !.last_move = <<from_pos, to_pos>>,
                             !.move_count = @ + 1, !.current_turn = opponent,
                             !.in_check = XqIsInCheck(b, opponent)]
         IN IF g1.in_check /\ ~XqHasValidMove(b, opponent)
              THEN Res(TRUE, "checkmate",
                       [g1 EXCEPT !.is_finished = TRUE, !.winner = XqOpponent(opponent)])
            ELSE IF ~g1.in_check /\ ~XqHasValidMove(b, opponent)
              THEN Res(TRUE, "stalemate",
                       [g1 EXCEPT !.is_finished = TRUE, !.winner = XqOpponent(opponent)])
            ELSE Res(TRUE, IF g1.in_check THEN "check" ELSE "moved", g1)

\* _parse_coordinate: <<row, col>>, or <<>> for None; the letter form from
\* the column col and the number row after the letter, the number form from
\* the numbers col and row around the comma
XqCoordinate(col, row) ==
  IF col.ok /\ row.ok /\ 0 <= row.v - 1 /\ row.v - 1 < 10 /\ 0 <= col.v - 1 /\ col.v - 1 < 9
    THEN <<row.v - 1, col.v - 1>> ELSE <<>>
XqNumberCoordinate(parts) ==
  IF Len(parts) = 2 THEN XqCoordinate(PyInt(parts[1]), PyInt(parts[2])) ELSE <<>>
XqParseCoordinateOf(coord_str) ==
  FirstOf(IF Len(coord_str) >= 2 /\ IndexOf(XQ_COLUMN_LABELS, coord_str[1]) > 0
            THEN XqCoordinate([ok |-> TRUE, v |-> IndexOf(XQ_COLUMN_LABELS, coord_str[1])],
                              PyInt(SubSeq(coord_str, 2, Len(coord_str))))
            ELSE <<>>,
          IF IndexOf(coord_str, ",") > 0 THEN XqNumberCoordinate(StrSplit(coord_str, ",")) ELSE <<>>,
          <<>>, <<>>)
XqParseCoordinate(coord_str) == XqParseCoordinateOf(StrUpper(StrStrip(coord_str)))

\* the index of the first letter after the first character of s, 0 if none
SecondLetter(s) ==
  LET later == {i \in 2..Len(s) : IsAlpha(s[i])}
  IN IF later = {} THEN 0 ELSE CHOOSE i \in later : \A j \in later : i <= j
\* s[:idx] and s[idx:] for the letter found, nothing without one
SplitBefore(s, idx) ==
  IF idx = 0 THEN <<>> ELSE <<SubSeq(s, 1, idx - 1), SubSeq(s, idx, Len(s))>>

\* _parse_coordinate_move: <<from_pos, to_pos>>, or <<>> for None
XqMoveOfCoordinates(from_coord, to_coord) ==
  IF from_coord = <<>> \/ to_coord = <<>> THEN <<>>
  ELSE <<from_coord[1] * 9 + from_coord[2], to_coord[1] * 9 + to_coord[2]>>
XqMoveOfParts(parts) ==
  IF Len(parts) # 2 THEN <<>>
  ELSE XqMoveOfCoordinates(XqParseCoordinate(parts[1]), XqParseCoordinate(parts[2]))
XqParseCoordinateMoveOf(move_str) ==
  XqMoveOfParts(IF IndexOf(move_str, "-") > 0 THEN StrSplit(move_str, "-")
                ELSE IF IndexOf(move_str, ">") > 0 THEN StrSplit(move_str, ">")
                ELSE IF IndexOf(move_str, ",") = 0 THEN SplitBefore(move_str, SecondLetter(move_str))
                ELSE <<>>)
XqParseCoordinateMove(move_str) == XqParseCoordinateMoveOf(StrUpper(move_str))

\* the tables of the notation; of a key written twice in a table the later
\* entry stands
CHINESE_PIECE_NAMES(c) ==
  CASE c = "U+5E05" -> {"R_KING"}
    [] c = "U+4ED5" -> {"R_ADVISOR", "B_ADVISOR"}
    [] c = "U+76F8" -> {"R_ELEPHANT"}
    [] c = "U+9A6C" -> {"R_HORSE"}
    [] c = "U+8F66" -> {"R_CHARIOT"}
    [] c = "U+70AE" -> {"R_CANNON"}
    [] c = "U+5175" -> {"R_SOLDIER"}
    [] c = "U+5C06" -> {"B_KING"}
    [] c = "U+58EB" -> {"B_ADVISOR"}
    [] c = "U+8C61" -> {"B_ELEPHANT"}
    [] c = "U+99AC" -> {"B_HORSE"}
    [] c = "U+8ECA" -> {"B_CHARIOT"}
    [] c = "U+7832" -> {"B_CANNON"}
    [] c = "U+5352" -> {"B_SOLDIER"}
    [] c = "U+5E25" -> {"R_KING"}
    [] c = "U+4FE5" -> {"R_CHARIOT"}
    [] c = "U+508C" -> {"R_HORSE"}
    [] c = "U+5305" -> {"R_CANNON"}
    [] OTHER -> {}
\* -1 for a character that is no key
CHINESE_NUMBERS(c) ==
  IF IndexOf(HAN_NUMBERS, c) > 0 THEN IndexOf(HAN_NUMBERS, c)
  ELSE IF IndexOf(DIGITS, c) > 1 THEN IndexOf(DIGITS, c) - 1
  ELSE IF IndexOf(FULLWIDTH_DIGITS, c) > 0 THEN IndexOf(FULLWIDTH_DIGITS, c) - 1
  ELSE -1
CHINESE_ACTIONS(c) ==
  CASE c \in {"U+8FDB", "U+9032"} -> "forward"
    [] c \in {"U+9000", "U+540E"} -> "backward"
    [] c = "U+5E73" -> "horizontal"
    [] OTHER -> None
CHINESE_POSITION(c) ==
  CASE c = "U+524D" -> "front"
    [] c \in {"U+5F8C", "U+540E"} -> "back"
    [] c = "U+4E2D" -> "middle"
    [] OTHER -> None

\* the rows of a set in the order of candidates.sort: descending for red
RECURSIVE XqSortRows(_, _)
XqSortRows(rows, side) ==
  IF rows = {} THEN <<>>
  ELSE LET first == IF side = "RED" THEN CHOOSE r \in rows : \A q \in rows : q <= r
                    ELSE CHOOSE r \in rows : \A q \in rows : r <= q
       IN <<first>> \o XqSortRows(rows \ {first}, side)

\* _parse_chinese_move: <<from_pos, to_pos>>, <<>> for None, and
\* <<"IndexError">> where the code reads past the end of the text.
\* The target cell, if it is on the board
XqChineseMoveTo(from_row, from_col, to_row, to_col) ==
  IF ~(0 <= to_row /\ to_row < 10 /\ 0 <= to_col /\ to_col < 9) THEN <<>>
  ELSE <<from_row * 9 + from_col, to_row * 9 + to_col>>
\* the direction of the rows for an advance or a retreat of a side
XqDir(side, action) ==
  IF (action = "forward") = (side = "RED") THEN 1 ELSE -1
\* the rows a horse, an elephant or an advisor moves for dc columns, 0 where
\* the code returns None
XqObliqueRows(piece, dc) ==
  IF piece \in {"R_HORSE", "B_HORSE"} THEN (IF dc = 1 THEN 2 ELSE IF dc = 2 THEN 1 ELSE 0)
  ELSE IF piece \in {"R_ELEPHANT", "B_ELEPHANT"} THEN (IF dc = 2 THEN 2 ELSE 0)
  ELSE IF piece \in {"R_ADVISOR", "B_ADVISOR"} THEN (IF dc = 1 THEN 1 ELSE 0)
  ELSE 0
XqChineseOblique(side, action, from_row, from_col, to_col, dr) ==
  IF dr = 0 THEN <<>>
  ELSE XqChineseMoveTo(from_row, from_col, from_row + XqDir(side, action) * dr, to_col)
\* the target of the piece on from_row, from_col; col_of_num is the column
\* the number names for the side
XqChineseTo(side, piece, from_row, from_col, action, target_num, col_of_num) ==
  IF action = "horizontal" THEN XqChineseMoveTo(from_row, from_col, from_row, col_of_num)
  ELSE IF piece \in {"R_CHARIOT", "B_CHARIOT", "R_CANNON", "B_CANNON",
                     "R_KING", "B_KING", "R_SOLDIER", "B_SOLDIER"}
    THEN XqChineseMoveTo(from_row, from_col, from_row + XqDir(side, action) * target_num, from_col)
  ELSE XqChineseOblique(side, action, from_row, from_col, col_of_num,
                        XqObliqueRows(piece, Abs(col_of_num - from_col)))
\* the candidate chosen of those sorted, <<>> if none is
XqChooseCandidate(position_marker, sorted) ==
  IF Len(sorted) <= 1 THEN sorted
  ELSE IF position_marker = "front" THEN <<sorted[1]>>
  ELSE IF position_marker = "back" THEN <<sorted[Len(sorted)]>>
  ELSE IF position_marker = "middle" /\ Len(sorted) >= 3 THEN <<sorted[Len(sorted) \div 2 + 1]>>
  ELSE <<>>
XqChineseChosen(g, from_col, action, target_num, chosen) ==
  IF chosen = <<>> THEN <<>>
  ELSE XqChineseTo(g.current_turn, g.board[chosen[1] * 9 + from_col], chosen[1], from_col,
                   action, target_num,
                   IF g.current_turn = "RED" THEN 9 - target_num ELSE target_num - 1)
XqChineseTarget(g, position_marker, valid_pieces, from_col, action, target_num) ==
  IF target_num = -1 THEN <<>>
  ELSE XqChineseChosen(g, from_col, action, target_num,
         XqChooseCandidate(position_marker,
           XqSortRows({r \in 0..9 : from_col \in 0..8 /\ g.board[r * 9 + from_col] \in valid_pieces},
                      g.current_turn)))
XqChineseParts(g, move_str, start_idx, valid_pieces, orig_col, action) ==
  IF valid_pieces = {} THEN <<>>
  ELSE IF orig_col = -1 THEN <<>>
  ELSE IF action = None THEN <<>>
  ELSE IF start_idx + 4 > Len(move_str) THEN <<"IndexError">>
  ELSE XqChineseTarget(g, IF start_idx = 1 THEN CHINESE_POSITION(move_str[1]) ELSE None,
                       valid_pieces,
                       IF g.current_turn = "RED" THEN 9 - orig_col ELSE orig_col - 1,
                       action, CHINESE_NUMBERS(move_str[start_idx + 4]))
XqChineseFrom(g, move_str, start_idx) ==
  XqChineseParts(g, move_str, start_idx,
                 {p \in CHINESE_PIECE_NAMES(move_str[start_idx + 1]) : get_piece_side(p) = g.current_turn},
                 CHINESE_NUMBERS(move_str[start_idx + 2]),
                 CHINESE_ACTIONS(move_str[start_idx + 3]))
XqParseChineseMove(g, move_str) ==
  IF Len(move_str) < 4 THEN <<>>
  ELSE XqChineseFrom(g, move_str, IF CHINESE_POSITION(move_str[1]) # None THEN 1 ELSE 0)

\* parse_move
XqParseMoveOf(g, move_str) ==
  FirstOf(XqParseCoordinateMove(move_str), XqParseChineseMove(g, move_str), <<>>, <<>>)
XqParseMove(g, move_str) == XqParseMoveOf(g, StrRemove(StrStrip(move_str), " "))

XqSurrender(g, player_id) ==
  IF g.is_finished THEN Res(FALSE, "finished", g)
  ELSE IF player_id = g.player_red
    THEN Res(TRUE, "red_resigns", [g EXCEPT !.winner = "BLACK", !.is_finished = TRUE])
  ELSE IF player_id = g.player_black
    THEN Res(TRUE, "black_resigns", [g EXCEPT !.winner = "RED", !.is_finished = TRUE])
  ELSE Res(FALSE, "not_participant", g)

XqCreateGame(reg, r, player_id) ==
  IF reg[r] # NoGame /\ ~reg[r].is_finished THEN MRes(FALSE, "exists", "game", reg)
  ELSE MRes(TRUE, "created", "game", [reg EXCEPT ![r] = XiangqiGame(player_id)])

XqJoinGame(reg, r, player_id) ==
  IF reg[r] = NoGame THEN MRes(FALSE, "no_game", None, reg)
  ELSE IF reg[r].is_finished THEN MRes(FALSE, "finished", None, reg)
  ELSE IF reg[r].player_black # None THEN MRes(FALSE, "full", "game", reg)
  ELSE JoinReturn(reg, r, XqJoin(reg[r], player_id))

\* make_move of the manager; where parse_move raises, nothing is returned:
\* game is "raise" and ok is FALSE
XqMoveAt(reg, r, player_id, move) ==
  IF move = <<>> THEN MRes(FALSE, "bad_move_text", None, reg)
  ELSE IF move = <<"IndexError">> THEN MRes(FALSE, "IndexError", "raise", reg)
  ELSE MgrReturn(reg, r, XqMakeMove(reg[r], player_id, move[1], move[2]))
XqMgrMakeMove(reg, r, player_id, move_str) ==
  IF reg[r] = NoGame THEN MRes(FALSE, "no_game", None, reg)
  ELSE XqMoveAt(reg, r, player_id, XqParseMove(reg[r], move_str))

XqMgrSurrender(reg, r, player_id) ==
  IF reg[r] = NoGame THEN MRes(FALSE, "no_game", None, reg)
  ELSE MgrReturn(reg, r, XqSurrender(reg[r], player_id))

(***************************************************************************)
(* Junqi (src/games/junqi.py).  Cell pos is column pos % 6 and row         *)
(* pos \div 6.  A cell holds a piece [piece_type, side, revealed] or       *)
(* NoPiece.                                                                *)
(***************************************************************************)
JQ_ROWS == 10
JQ_COLS == 6
JQ_COLUMN_LABELS == <<"A","B","C","D","E","F">>
NoPiece == [none |-> TRUE]
Piece(piece_type, side) == [piece_type |-> piece_type, side |-> side, revealed |-> FALSE]

PIECE_RANK(t) ==
  CASE t = "ENGINEER" -> 1 [] t = "PLATOON" -> 2 [] t = "COMPANY" -> 3
    [] t = "BATTALION" -> 4 [] t = "REGIMENT" -> 5 [] t = "BRIGADE" -> 6
    [] t = "DIVISION" -> 7 [] t = "GENERAL" -> 8 [] t = "COMMANDER" -> 9
    [] OTHER -> 0

PIECE_COUNT(t) ==
  CASE t \in {"FLAG", "COMMANDER", "GENERAL"} -> 1
    [] t \in {"BOMB", "DIVISION", "BRIGADE", "REGIMENT", "BATTALION"} -> 2
    [] OTHER -> 3
PieceTypes == {"FLAG", "MINE", "BOMB", "COMMANDER", "GENERAL", "DIVISION", "BRIGADE",
               "REGIMENT", "BATTALION", "COMPANY", "PLATOON", "ENGINEER"}

\* _init_board puts the 50 pieces face down on 50 of the 60 cells at random:
\* a board is one the shuffle can produce when every piece type is on it
\* PIECE_COUNT times for either side and nothing is revealed
JqIsInitialBoard(board) ==
  /\ DOMAIN board = 0..(JQ_ROWS * JQ_COLS - 1)
  /\ \A t \in PieceTypes, sd \in {"RED", "BLUE"} :
       Cardinality({pos \in DOMAIN board : board[pos] = Piece(t, sd)}) = PIECE_COUNT(t)
  /\ Cardinality({pos \in DOMAIN board : board[pos] = NoPiece}) = 10

\* the pieces in the order _init_board makes them, as <<type, side>>
JqPieceList ==
  LET Both(t) == <<<<t, "RED">>, <<t, "BLUE">>>>
      Twice(t) == Both(t) \o Both(t)
      Thrice(t) == Both(t) \o Both(t) \o Both(t)
  IN Both("FLAG") \o Thrice("MINE") \o Twice("BOMB") \o Both("COMMANDER") \o Both("GENERAL")
     \o Twice("DIVISION") \o Twice("BRIGADE") \o Twice("REGIMENT") \o Twice("BATTALION")
     \o Thrice("COMPANY") \o Thrice("PLATOON") \o Thrice("ENGINEER")

\* the board of a shuffle that leaves piece i on cell positions[i]
JqBoardOf(positions) ==
  [pos \in 0..(JQ_ROWS * JQ_COLS - 1) |->
     IF \E i \in 1..50 : positions[i] = pos
       THEN LET i == CHOOSE i \in 1..50 : positions[i] = pos
            IN Piece(JqPieceList[i][1], JqPieceList[i][2])
       ELSE NoPiece]

JunqiGame(player_id, board) ==
  [player_a |-> player_id, player_b |-> None, player_a_side |-> None, board |-> board,
   current_turn |-> 1, move_count |-> 0, last_action |-> None, last_pos |-> -1,
   is_finished |-> FALSE, winner |-> None,
   red_flag_captured |-> FALSE, blue_flag_captured |-> FALSE]

\* neighbours by the index alone, around the ends of the rows
JqNeighborsAround(pos) ==
  {pos - 1, pos + 1, pos - JQ_COLS, pos + JQ_COLS} \cap (0..(JQ_ROWS * JQ_COLS - 1))

\* _get_neighbors
JqNeighbors(pos) ==
  LET x == pos % JQ_COLS
      y == pos \div JQ_COLS
  IN (IF x > 0 THEN {pos - 1} ELSE {}) \cup (IF x < JQ_COLS - 1 THEN {pos + 1} ELSE {})
     \cup (IF y > 0 THEN {pos - JQ_COLS} ELSE {})
     \cup (IF y < JQ_ROWS - 1 THEN {pos + JQ_COLS} ELSE {})

JqJoin(g, player_id) ==
  IF g.player_b # None THEN Res(FALSE, "", g)
  ELSE IF player_id = g.player_a THEN Res(FALSE, "", g)
  ELSE Res(TRUE, "", [g EXCEPT !.player_b = player_id])

get_current_player(g) == IF g.current_turn = 1 THEN g.player_a ELSE g.player_b

get_player_side(g, player_id) ==
  IF g.player_a_side = None THEN None
  ELSE IF player_id = g.player_a THEN g.player_a_side
  ELSE IF player_id = g.player_b THEN (IF g.player_a_side = "RED" THEN "BLUE" ELSE "RED")
  ELSE None

\* a turn that stays with the player who moved
JqKeepTurn(g) == g
\* _switch_turn
\* the mutant of get_board_for_render: a face-down piece is shown
JqGetBoardOpen(g, viewer_id) ==
  [i \in 1..(JQ_ROWS * JQ_COLS) |->
     IF g.board[i - 1] = NoPiece THEN [type |-> "empty"]
     ELSE [type |-> "revealed", piece |-> g.board[i - 1].piece_type,
           side |-> g.board[i - 1].side, name |-> g.board[i - 1].piece_type]]
\* get_board_for_render: one entry per cell in position order, the piece
\* only where it is face up; the viewer's side is computed and not used
JqGetBoardForRender(g, viewer_id) ==
  [i \in 1..(JQ_ROWS * JQ_COLS) |->
     IF g.board[i - 1] = NoPiece THEN [type |-> "empty"]
     ELSE IF g.board[i - 1].revealed
       THEN [type |-> "revealed", piece |-> g.board[i - 1].piece_type,
             side |-> g.board[i - 1].side, name |-> g.board[i - 1].piece_type]
     ELSE [type |-> "hidden"]]

JqSwitchTurn(g) == [g EXCEPT !.current_turn = IF @ = 1 THEN 2 ELSE 1]

\* a flip that gives the first player the side of every piece it reveals
JqFlipTakesSide(g, player_id, pos) ==
  IF g.is_finished THEN Res(FALSE, "finished", g)
  ELSE IF g.player_b = None THEN Res(FALSE, "waiting", g)
  ELSE IF player_id # get_current_player(g) THEN Res(FALSE, "not_your_turn", g)
  ELSE IF ~(0 <= pos /\ pos < JQ_ROWS * JQ_COLS) THEN Res(FALSE, "range", g)
  ELSE IF g.board[pos] = NoPiece THEN Res(FALSE, "no_piece", g)
  ELSE IF g.board[pos].revealed THEN Res(FALSE, "revealed", g)
  ELSE Res(TRUE, "flip " \o g.board[pos].piece_type,
           JqSwitchTurn([g EXCEPT !.board[pos].revealed = TRUE,
                                  !.player_a_side = g.board[pos].side,
                                  !.last_action = "flip " \o g.board[pos].piece_type,
                                  !.last_pos = pos, !.move_count = @ + 1]))

JqFlip(g, player_id, pos) ==
  IF g.is_finished THEN Res(FALSE, "finished", g)
  ELSE IF g.player_b = None THEN Res(FALSE, "waiting", g)
  ELSE IF player_id # get_current_player(g) THEN Res(FALSE, "not_your_turn", g)
  ELSE IF ~(0 <= pos /\ pos < JQ_ROWS * JQ_COLS) THEN Res(FALSE, "range", g)
  ELSE IF g.board[pos] = NoPiece THEN Res(FALSE, "no_piece", g)
  ELSE IF g.board[pos].revealed THEN Res(FALSE, "revealed", g)
  ELSE LET piece == g.board[pos]
           g1 == [g EXCEPT !.board[pos].revealed = TRUE,
                           !.player_a_side = IF @ = None THEN piece.side ELSE @,
                           !.last_action = IF g.player_a_side = None
                                             THEN "flip " \o piece.piece_type \o " is " \o piece.side
                                             ELSE "flip " \o piece.piece_type,
                           !.last_pos = pos,
                           !.move_count = @ + 1]
       IN Res(TRUE, g1.last_action, JqSwitchTurn(g1))

\* a battle that knows bombs and flags but takes a mine by rank
JqBattleByRank(attacker, defender) ==
  IF attacker.piece_type = "BOMB" \/ defender.piece_type = "BOMB" THEN "draw"
  ELSE IF defender.piece_type = "FLAG" THEN "win"
  ELSE IF PIECE_RANK(attacker.piece_type) > PIECE_RANK(defender.piece_type) THEN "win"
  ELSE IF PIECE_RANK(attacker.piece_type) < PIECE_RANK(defender.piece_type) THEN "lose"
  ELSE "draw"

\* _battle
JqBattle(attacker, defender) ==
  IF attacker.piece_type = "BOMB" \/ defender.piece_type = "BOMB" THEN "draw"
  ELSE IF defender.piece_type = "MINE"
    THEN (IF attacker.piece_type = "ENGINEER" THEN "win" ELSE "draw")
  ELSE IF defender.piece_type = "FLAG" THEN "win"
  ELSE IF PIECE_RANK(attacker.piece_type) > PIECE_RANK(defender.piece_type) THEN "win"
  ELSE IF PIECE_RANK(attacker.piece_type) < PIECE_RANK(defender.piece_type) THEN "lose"
  ELSE "draw"

\* an end of the game that the first player always wins
JqCheckGameEndForA(g) ==
  IF g.red_flag_captured \/ g.blue_flag_captured
    THEN [g EXCEPT !.is_finished = TRUE, !.winner = g.player_a]
  ELSE g

\* _check_game_end
JqCheckGameEnd(g) ==
  IF g.red_flag_captured
    THEN [g EXCEPT !.is_finished = TRUE,
                   !.winner = IF g.player_a_side = "BLUE" THEN g.player_a ELSE g.player_b]
  ELSE IF g.blue_flag_captured
    THEN [g EXCEPT !.is_finished = TRUE,
                   !.winner = IF g.player_a_side = "RED" THEN g.player_a ELSE g.player_b]
  ELSE g

JqMove(g, player_id, from_pos, to_pos) ==
  IF g.is_finished THEN Res(FALSE, "finished", g)
  ELSE IF g.player_b = None THEN Res(FALSE, "waiting", g)
  ELSE IF player_id # get_current_player(g) THEN Res(FALSE, "not_your_turn", g)
  ELSE IF g.player_a_side = None THEN Res(FALSE, "flip_first", g)
  ELSE IF ~(0 <= from_pos /\ from_pos < JQ_ROWS * JQ_COLS) THEN Res(FALSE, "from_range", g)
  ELSE IF ~(0 <= to_pos /\ to_pos < JQ_ROWS * JQ_COLS) THEN Res(FALSE, "to_range", g)
  ELSE IF g.board[from_pos] = NoPiece THEN Res(FALSE, "no_piece", g)
  ELSE IF ~g.board[from_pos].revealed THEN Res(FALSE, "hidden", g)
  ELSE IF g.board[from_pos].side # get_player_side(g, player_id) THEN Res(FALSE, "not_own", g)
  ELSE IF g.board[from_pos].piece_type \in {"MINE", "FLAG"} THEN Res(FALSE, "immobile", g)
  ELSE IF to_pos \notin JqNeighbors(from_pos) THEN Res(FALSE, "not_adjacent", g)
  ELSE
    LET piece == g.board[from_pos]
        target == g.board[to_pos]
    IN IF target = NoPiece
         THEN Res(TRUE, "move " \o piece.piece_type,
                  JqSwitchTurn([g EXCEPT !.board[to_pos] = piece, !.board[from_pos] = NoPiece,
                                         !.last_action = "move " \o piece.piece_type,
                                         !.last_pos = to_pos, !.move_count = @ + 1]))
       ELSE IF ~target.revealed THEN Res(FALSE, "target_hidden", g)
       ELSE IF target.side = get_player_side(g, player_id) THEN Res(FALSE, "own_target", g)
       ELSE
         LET result == JqBattle(piece, target)
             g1 == [g EXCEPT !.board[to_pos] = IF result = "win" THEN piece
                                                ELSE IF result = "lose" THEN @ ELSE NoPiece,
                             !.board[from_pos] = NoPiece,
                             !.last_action = result \o " " \o piece.piece_type
                                               \o " " \o target.piece_type]
             g2 == IF target.piece_type = "FLAG"
                     THEN JqCheckGameEnd(
                            [g1 EXCEPT !.red_flag_captured = IF target.side = "RED" THEN TRUE ELSE @,
                                       !.blue_flag_captured = IF target.side = "RED" THEN @ ELSE TRUE])
                     ELSE g1
         IN Res(TRUE, g1.last_action,
                JqSwitchTurn([g2 EXCEPT !.last_pos = to_pos, !.move_count = @ + 1]))

\* a surrender that is accepted only from the player to move
JqSurrenderOnTurn(g, player_id) ==
  IF g.is_finished \/ player_id # get_current_player(g) THEN Res(FALSE, "refused", g)
  ELSE Res(TRUE, "resigns",
           [g EXCEPT !.winner = IF player_id = g.player_a THEN g.player_b ELSE g.player_a,
                     !.is_finished = TRUE])
JqSurrender(g, player_id) ==
  IF g.is_finished THEN Res(FALSE, "finished", g)
  ELSE IF player_id = g.player_a
    THEN Res(TRUE, "a_resigns", [g EXCEPT !.winner = g.player_b, !.is_finished = TRUE])
  ELSE IF player_id = g.player_b
    THEN Res(TRUE, "b_resigns", [g EXCEPT !.winner = g.player_a, !.is_finished = TRUE])
  ELSE Res(FALSE, "not_participant", g)

\* parse_coordinate: the cell, or -1 for None
JqPosOf(xy) == IF xy = <<>> THEN -1 ELSE xy[2] * JQ_COLS + xy[1]
JqParseCoordinate(coord_str) ==
  JqPosOf(ParseCoordinate(JQ_COLUMN_LABELS, JQ_COLS, JQ_COLS, JQ_ROWS, coord_str))

\* the board is the one the shuffle of _init_board produced
JqCreateGame(reg, r, player_id, board) ==
  IF reg[r] # NoGame /\ ~reg[r].is_finished THEN MRes(FALSE, "exists", "game", reg)
  ELSE MRes(TRUE, "created", "game", [reg EXCEPT ![r] = JunqiGame(player_id, board)])

JqJoinGame(reg, r, player_id) ==
  IF reg[r] = NoGame THEN MRes(FALSE, "no_game", None, reg)
  ELSE IF reg[r].is_finished THEN MRes(FALSE, "finished", None, reg)
  ELSE IF reg[r].player_b # None THEN MRes(FALSE, "full", "game", reg)
  ELSE JoinReturn(reg, r, JqJoin(reg[r], player_id))

\* flip of the manager once the text is parsed to pos
JqFlipAt(reg, r, player_id, pos) ==
  IF pos = -1 THEN MRes(FALSE, "bad_coordinate", None, reg)
  ELSE MgrReturn(reg, r, JqFlip(reg[r], player_id, pos))
JqMgrFlip(reg, r, player_id, coord_str) ==
  IF reg[r] = NoGame THEN MRes(FALSE, "no_game", None, reg)
  ELSE JqFlipAt(reg, r, player_id, JqParseCoordinate(coord_str))

\* move of the manager once the text is split and parsed
JqMoveAt(reg, r, player_id, from_pos, to_pos) ==
  IF from_pos = -1 \/ to_pos = -1 THEN MRes(FALSE, "bad_move_text", None, reg)
  ELSE MgrReturn(reg, r, JqMove(reg[r], player_id, from_pos, to_pos))
JqMoveOfParts(reg, r, player_id, parts) ==
  IF Len(parts) = 2
    THEN JqMoveAt(reg, r, player_id, JqParseCoordinate(parts[1]), JqParseCoordinate(parts[2]))
    ELSE JqMoveAt(reg, r, player_id, -1, -1)
JqMoveOfText(reg, r, player_id, move_str) ==
  JqMoveOfParts(reg, r, player_id,
                IF IndexOf(move_str, "-") > 0 THEN StrSplit(move_str, "-")
                ELSE IF IndexOf(move_str, ">") > 0 THEN StrSplit(move_str, ">")
                ELSE SplitBefore(move_str, SecondLetter(move_str)))
JqMgrMove(reg, r, player_id, move_str) ==
  IF reg[r] = NoGame THEN MRes(FALSE, "no_game", None, reg)
  ELSE JqMoveOfText(reg, r, player_id, StrUpper(StrStrip(move_str)))

JqMgrSurrender(reg, r, player_id) ==
  IF reg[r] = NoGame THEN MRes(FALSE, "no_game", None, reg)
  ELSE MgrReturn(reg, r, JqSurrender(reg[r], player_id))

(***************************************************************************)
(* Actions: one per manager method                                         *)
(***************************************************************************)
NoEvent == [who |-> None, undone |-> FALSE, twice |-> "no"]
\* no job; no firing yet
NoJob == [none |-> TRUE]
NoFire == [none |-> TRUE]
\* the record of the session after a successful turn action by p
TurnEvent(old, p) ==
  [who |-> p, undone |-> FALSE,
   twice |-> IF old.who # p THEN "no" ELSE IF old.undone THEN "after_undo" ELSE "bare"]
\* the record of the session after a successful undo
UndoEvent(old) == [old EXCEPT !.undone = TRUE]

NoLog == [last |-> "none", earlier |-> "none", before |-> NoGame, at |-> -1,
          placed |-> [BLACK |-> 0, WHITE |-> 0], asked |-> None]
\* the colour player p holds in go session g
GoColourOf(g, p) == IF p = g.player_black THEN "BLACK" ELSE "WHITE"
\* what the rules of go say an undo gives back, as session g holds it
GoUndoable(g) ==
  [board |-> g.board, captured_black |-> g.captured_black,
   captured_white |-> g.captured_white, current_turn |-> g.current_turn,
   move_count |-> g.move_count, board_history |-> g.board_history]
\* the record of go session old, which became new, after the successful
\* command what of player p
GoLogged(l, what, old, new, p) ==
  CASE what = "fresh" -> NoLog
    [] what = "place" ->
         [l EXCEPT !.last = "place", !.earlier = l.last, !.before = GoUndoable(old),
                   !.at = CHOOSE c \in GoCells(old.board_size) :
                            GoStone(old.board, c) = "EMPTY" /\ GoStone(new.board, c) # "EMPTY",
                   !.placed[GoColourOf(old, p)] = @ + 1,
                   !.asked = None]
    [] what = "pass" -> [l EXCEPT !.last = "pass", !.earlier = l.last, !.asked = None]
    [] what = "undo" -> [l EXCEPT !.placed[GoColourOf(old, p)] = @ - 1]
    [] what = "request" -> [l EXCEPT !.asked = IF @ = None THEN p ELSE @]
    [] what = "reject" -> [l EXCEPT !.asked = None]
    [] OTHER -> l

\* A command to the manager of kind k, which returns res.  The workload
\* decides whether it is sent: a command that succeeds must be within the
\* workload's bound.  what is the event recorded for the room's session when
\* the command succeeds: "fresh" when it starts or removes the session,
\* "turn" for a turn action (place, pass, move, flip) by p, "undo" for an
\* undo by p, "keep" for none; a go command is recorded under its own name
\* ("place" and "pass" are the turn actions of go).
Apply(k, r, res, p, what, within) ==
  /\ mode \in MixedModes \/ KindOf(mode) = k
  /\ mode \in MixedModes => nops < MaxOps
  /\ res.ok => within
  /\ nops' = IF mode \in MixedModes THEN nops + 1 ELSE nops
  /\ mode' = mode
  /\ actor' = IF ~res.ok \/ what \in {"keep", "request", "reject"} THEN actor
              ELSE [actor EXCEPT ![k][r] = IF what = "fresh" THEN NoEvent
                                           ELSE IF what = "undo" THEN UndoEvent(@)
                                           ELSE TurnEvent(@, p)]
  /\ golog' = IF ~res.ok \/ k # "go" THEN golog
              ELSE [golog EXCEPT ![r] = GoLogged(@, what, go[r], res.reg[r], p)]
  /\ ttt' = IF k = "ttt" THEN res.reg ELSE ttt
  /\ gmk' = IF k = "gmk" THEN res.reg ELSE gmk
  /\ go' = IF k = "go" THEN res.reg ELSE go
  /\ xq' = IF k = "xq" THEN res.reg ELSE xq
  /\ jq' = IF k = "jq" THEN res.reg ELSE jq
\* a call of a manager method by itself: the scheduler is not involved
Command(k, r, res, p, what, within) ==
  Apply(k, r, res, p, what, within) /\ UNCHANGED <<jobs, awaiting, fired>>

TttCreate ==
  \E r \in RoomsOf(mode), p \in Creators(mode) :
    Command("ttt", r, TttCreateGame(ttt, r, p), None, "fresh", TRUE)

TttJoinA ==
  \E r \in RoomsOf(mode), p \in Joiners(mode) :
    Command("ttt", r, TttJoinGame(ttt, r, p), None, "keep", TRUE)

TttPlace ==
  \E r \in RoomsOf(mode), p \in Callers(mode), position \in TttPositions(mode) :
    Command("ttt", r, TttMgrMakeMove(ttt, r, p, position), p, "turn",
            (mode = "ttt" => TttMarks(ttt[r]) < MaxTttMoves))

TttResign ==
  \E r \in RoomsOf(mode), p \in Callers(mode) :
    Command("ttt", r, TttMgrSurrender(ttt, r, p), None, "keep", TRUE)

TttEnd ==
  \E r \in RoomsOf(mode) :
    Command("ttt", r, EndGame(ttt, r), None, "fresh", TRUE)

NextTtt == TttCreate \/ TttJoinA \/ TttPlace \/ TttResign \/ TttEnd

\* board sizes a caller asks for: a supported one and an unsupported one
GmkSizeInputs == {10, 13}
\* in the workload of coordinate texts, every supported size
GmkSizesIn(m) == IF m = "gmk_txt" THEN GmkSizes ELSE GmkSizeInputs

GmkLabel(x, y) == CoordinateLabel(GMK_COLUMN_LABELS, x, y)

\* the coordinate texts of the workloads of texts: the first and the last
\* files of each size by letter and by number, the letter I and its
\* neighbours, and texts cut short
GmkTexts ==
  {<<"A","1">>, <<"h","2">>, <<"I","2">>, <<"J","2">>, <<"N","1">>, <<"O","1">>, <<"P","1">>,
   <<"T","1">>, <<"1","5",",","1">>, <<"1","9","-","1","9">>, <<"O">>, <<"1",",">>, <<>>}
GoTexts ==
  {<<"A","1">>, <<"h","2">>, <<"I","2">>, <<"J","2">>, <<"N","1">>, <<"T","1">>,
   <<"T","1","9">>, <<"U","1">>, <<"1","9"," ","1">>, <<"T">>, <<",","1">>, <<>>}
XqTexts ==
  {<<"I","1","-","I","2">>, <<"i","1","0","i","9">>, <<"J","1","-","J","2">>, <<"H","1","-","G","3">>,
   <<"9",",","4","-","9",",","5">>, <<"I","1","-">>, <<"I","1">>, <<>>,
   <<"U+70AE","U+4E8C","U+5E73","U+4E94">>, <<"U+70AE","U+4E8C","U+5E73">>,
   <<"U+524D","U+70AE","U+4E8C","U+8FDB","U+4E00">>, <<"U+524D","U+70AE","U+4E8C","U+8FDB">>,
   <<"U+524D","U+70AE","U+4E8C">>, <<"U+7832","8","U+5E73","5">>, <<"U+540E","U+7832","8","U+9000">>}
JqTexts ==
  {<<"A","1">>, <<"f","1","2">>, <<"F","1","3">>, <<"G","1">>, <<"I","1">>, <<"6",",","1","2">>,
   <<"A">>, <<>>}
JqMoveTexts ==
  {<<"A","1","-","B","1">>, <<"A","1","B","1">>, <<"a","1",">","b","1">>, <<"A","1","-">>, <<"-">>,
   <<"A","1","-","B","1","-","C","1">>, <<"A","1","B">>, <<"A">>, <<>>}

\* coordinate strings caller p sends.  In the line workloads the creator
\* fills a line of its own and the other player a second line, one cell of
\* the creator's line and, in the row workload, a cell away from both.
GmkInputs(m, p) ==
  CASE m = "gmk_h" ->
         \* a row of six on the lower edge; a column of five
         IF p = "p1" THEN {GmkLabel(x, 0) : x \in 0..5}
         ELSE {GmkLabel(7, y) : y \in 1..5} \cup {GmkLabel(2, 0), GmkLabel(9, 7)}
    [] m = "gmk_d" ->
         \* a rising diagonal of five from the corner; a falling one
         IF p = "p1" THEN {GmkLabel(i, i) : i \in 0..4}
         ELSE {GmkLabel(8 + i, 6 - i) : i \in 0..4} \cup {GmkLabel(1, 1)}
    [] m = "gmk_txt" -> GmkTexts
    [] m = "gmk" ->
         {<<"A", "1">>, <<"b", "1">>, <<"2", ",", "2">>, <<"1", "-", "2">>,
          <<"I", "1">>, <<"A", "1", "4">>, <<"A">>}
    [] OTHER -> {<<"A", "1">>, <<"Z", "9">>}

GmkCreate ==
  \E r \in RoomsOf(mode), p \in Creators(mode), n \in GmkSizesIn(mode) :
    Command("gmk", r, GmkCreateGame(gmk, r, p, n), None, "fresh", TRUE)

GmkJoinA ==
  \E r \in RoomsOf(mode), p \in Joiners(mode) :
    Command("gmk", r, GmkJoinGame(gmk, r, p), None, "keep", TRUE)

GmkPlace ==
  \E r \in RoomsOf(mode), p \in Callers(mode) : \E c \in GmkInputs(mode, p) :
    Command("gmk", r, GmkMgrMakeMove(gmk, r, p, c), p, "turn",
            /\ mode = "gmk" => gmk[r].move_count < MaxGmkMoves
            /\ mode = "gmk_txt" => gmk[r].move_count < MaxTextMoves)

GmkResign ==
  \E r \in RoomsOf(mode), p \in Callers(mode) :
    Command("gmk", r, GmkMgrSurrender(gmk, r, p), None, "keep", TRUE)

GmkEnd ==
  \E r \in RoomsOf(mode) :
    Command("gmk", r, EndGame(gmk, r), None, "fresh", TRUE)

NextGmk == GmkCreate \/ GmkJoinA \/ GmkPlace \/ GmkResign \/ GmkEnd

GoSizeInputs == {9, 10}
GoSizesIn(m) == IF m = "go_txt" THEN GoSizes ELSE GoSizeInputs
\* the coordinates each caller sends: in the ko workload the creator plays
\* C1, B2 and A1 and the joiner A2 and B1; in the go workload the creator
\* plays A1 and B2 and the joiner A2, B1 and a column that is not a label;
\* in the workload of captures the creator walls in the cells A1, B1 and C1
\* that the joiner plays; in the workload of territories the creator walls
\* in A1, which the joiner tries to play, and plays E5, and the joiner walls
\* in J9
GoInputs(m, p) ==
  CASE m = "go_ko" /\ p = "p1" -> {<<"c","1">>, <<"B","2">>, <<"1",",","1">>}
    [] m = "go_cap" /\ p = "p1" -> {<<"A","2">>, <<"b","2">>, <<"3",",","2">>, <<"D","1">>}
    [] m = "go_cap" /\ p # "p1" -> {<<"A","1">>, <<"B","1">>, <<"c","1">>}
    [] m = "go_area" /\ p = "p1" -> {<<"A","2">>, <<"B","1">>, <<"e","5">>}
    [] m = "go_area" /\ p # "p1" -> {<<"H","9">>, <<"J","8">>, <<"1","-","1">>}
    [] m = "go_ko" /\ p # "p1" -> {<<"A","2">>, <<"2","-","1">>}
    [] m = "go_txt" -> GoTexts
    [] m = "go" /\ p = "p1" -> {<<"a","1">>, <<"2"," ","2">>}
    [] m = "go" /\ p # "p1" -> {<<"A","2">>, <<"B","1">>, <<"I","1">>}
    [] OTHER -> {<<"A","1">>, <<"Z","9">>}

\* the order in which the creator builds the wall in the workload of captures
GoWall == << <<"A","2">>, <<"3",",","2">>, <<"D","1">>, <<"b","2">> >>

GoCreate ==
  \E r \in RoomsOf(mode), p \in Creators(mode), n \in GoSizesIn(mode) :
    Command("go", r, GoCreateGame(go, r, p, n), None, "fresh", TRUE)

GoJoinA ==
  \E r \in RoomsOf(mode), p \in Joiners(mode) :
    Command("go", r, GoJoinGame(go, r, p), None, "keep", TRUE)

GoPlace ==
  \E r \in RoomsOf(mode), p \in Callers(mode) : \E c \in GoInputs(mode, p) :
    Command("go", r, GoMgrMakeMove(go, r, p, c), p, "place",
            /\ mode = "go" => go[r].move_count < MaxGoMoves
            /\ mode = "go_ko" => go[r].move_count < MaxKoMoves
            /\ mode = "go_cap" => go[r].move_count < MaxCapMoves
            /\ mode = "go_area" => go[r].move_count < MaxAreaMoves
            /\ mode = "go_txt" => go[r].move_count < MaxTextMoves
            /\ mode = "go_cap" /\ p = "p1" =>
                 /\ Cardinality(go[r].board.BLACK) < Len(GoWall)
                 /\ c = GoWall[Cardinality(go[r].board.BLACK) + 1])

GoPass ==
  \E r \in RoomsOf(mode), p \in Callers(mode) :
    Command("go", r, GoMgrPassTurn(go, r, p), p, "pass", TRUE)

GoUndoA ==
  \E r \in RoomsOf(mode), p \in Callers(mode) :
    Command("go", r, GoMgrUndo(go, r, p), p, "undo", TRUE)

GoRequest ==
  \E r \in RoomsOf(mode), p \in Callers(mode) :
    mode \notin {"go_ko", "go_cap"}
    /\ Command("go", r, GoMgrRequestScore(go, r, p), p, "request", TRUE)

GoReject ==
  \E r \in RoomsOf(mode), p \in Callers(mode) :
    mode \notin {"go_ko", "go_cap"}
    /\ Command("go", r, GoMgrRejectScore(go, r, p), p, "reject", TRUE)

GoResign ==
  \E r \in RoomsOf(mode), p \in Callers(mode) :
    mode \notin {"go_ko", "go_cap"}
    /\ Command("go", r, GoMgrSurrender(go, r, p), None, "keep", TRUE)

GoCount ==
  \E r \in RoomsOf(mode) :
    mode \notin {"go_ko", "go_cap"}
    /\ Command("go", r, GoMgrCountScore(go, r), None, "keep", TRUE)

GoEnd ==
  \E r \in RoomsOf(mode) :
    Command("go", r, EndGame(go, r), None, "fresh", TRUE)

NextGo == GoCreate \/ GoJoinA \/ GoPlace \/ GoPass \/ GoUndoA \/ GoRequest
          \/ GoReject \/ GoResign \/ GoCount \/ GoEnd

\* the move texts each caller sends: in the xiangqi workload red brings a
\* cannon to the centre and takes the centre pawn with it, black advances a
\* pawn and then has an advisor that may not step in front of its king
\* Sessions in progress.  XqEndBoard: red (to move) has its king on E1 and
\* chariots on B1 and A9 against the bare black king on D10, which has just
\* taken a piece there.  XqMidBoard: a middle game after forty moves, with a
\* soldier of each side across the river and one short of it, an elephant
\* of each side on the bank, a horse behind its own soldier, the black
\* soldier of B4 between the cannons of the B file, and a black chariot on
\* the second rank.
XqBoardOf(pieces) == [pos \in 0..89 |-> IF pos \in DOMAIN pieces THEN pieces[pos] ELSE "EMPTY"]
XqEndBoard ==
  XqBoardOf(4 :> "R_KING" @@ 1 :> "R_CHARIOT" @@ 72 :> "R_CHARIOT" @@ 84 :> "B_KING")
XqMidBoard ==
  XqBoardOf(4 :> "R_KING" @@ 19 :> "R_CANNON" @@ 24 :> "R_HORSE" @@ 33 :> "R_SOLDIER"
            @@ 38 :> "R_ELEPHANT" @@ 49 :> "R_SOLDIER"
            @@ 85 :> "B_KING" @@ 64 :> "B_CANNON" @@ 82 :> "B_HORSE" @@ 28 :> "B_SOLDIER"
            @@ 60 :> "B_SOLDIER" @@ 47 :> "B_ELEPHANT" @@ 17 :> "B_CHARIOT")
XqInProgress(board, moves, last) ==
  [XiangqiGame("p1") EXCEPT !.player_black = "p2", !.board = board,
                            !.move_count = moves, !.last_move = last]
\* moves since the position in progress (the sessions in progress are at a
\* multiple of twenty moves)
XqPlayedOn(g) == g.move_count % 20

\* the text of a cell and of a move: column letter, row number, a dash
XqCellText(pos) ==
  <<XQ_COLUMN_LABELS[(pos % 9) + 1]>>
    \o (IF pos \div 9 = 9 THEN <<"1", "0">>
        ELSE <<(<<"1","2","3","4","5","6","7","8","9">>)[(pos \div 9) + 1]>>)
XqMoveText(move) == XqCellText(move[1]) \o <<"-">> \o XqCellText(move[2])
\* the end game: the chariot of B1 mates on B10 and stalemates on B2, as the
\* king does on E2; the chariot of A9 lets the king out or checks it; the
\* red king may try the D file or leave the E file to the black king
XqEndMoves ==
  {<<1, 82>>, <<1, 10>>, <<4, 13>>, <<4, 3>>, <<4, 5>>, <<72, 63>>, <<72, 81>>, <<63, 72>>, <<63, 66>>,
   <<84, 75>>, <<84, 85>>, <<75, 66>>, <<75, 76>>, <<75, 74>>}
\* the middle game: every kind of piece, legally and not
XqMidMoves ==
  {<<19, 64>>, <<19, 82>>, <<19, 28>>, <<19, 10>>, <<19, 22>>, <<38, 22>>, <<38, 18>>, <<38, 58>>,
   <<24, 13>>, <<24, 41>>, <<33, 42>>, <<49, 58>>, <<49, 48>>, <<49, 40>>, <<4, 5>>, <<4, 13>>,
   <<28, 19>>, <<28, 27>>, <<28, 37>>, <<60, 51>>, <<60, 59>>, <<47, 67>>, <<47, 31>>,
   <<64, 19>>, <<82, 65>>, <<85, 76>>, <<85, 84>>}

XqInputs(m, p) ==
  IF m = "xq_end" THEN {XqMoveText(c) : c \in XqEndMoves}
  ELSE IF m = "xq_mid" THEN {XqMoveText(c) : c \in XqMidMoves}
  ELSE IF m = "xq_txt" THEN XqTexts
  ELSE IF m = "xq"
    THEN CASE p = "p1" -> {<<"H","3","E","3">>, <<"e","3",">","e","7">>, <<"b","1","-","b","3">>,
                           <<"U+8F66","U+4E5D","U+8FDB","U+4E00">>}
           [] p = "p2" -> {<<"a","7","-","a","6">>, <<"4",",","1","0","-","5",",","9">>,
                           <<"h","8"," ","-"," ","h","1">>}
           [] OTHER -> {<<"a","1","-","a","2">>, <<"x">>}
    ELSE {<<"a","1","-","a","2">>, <<"e","2","e","3">>}

XqCreate ==
  \E r \in RoomsOf(mode), p \in Creators(mode) :
    Command("xq", r, XqCreateGame(xq, r, p), None, "fresh", TRUE)

XqJoinA ==
  \E r \in RoomsOf(mode), p \in Joiners(mode) :
    Command("xq", r, XqJoinGame(xq, r, p), None, "keep", TRUE)

XqMove ==
  \E r \in RoomsOf(mode), p \in Callers(mode) : \E c \in XqInputs(mode, p) :
    Command("xq", r, XqMgrMakeMove(xq, r, p, c), p, "turn",
            /\ mode = "xq" => xq[r].move_count < MaxXqMoves
            /\ mode \in {"xq_end", "xq_mid"} => XqPlayedOn(xq[r]) < MaxEndMoves
            /\ mode = "xq_txt" => xq[r].move_count < MaxTextMoves)

XqResign ==
  \E r \in RoomsOf(mode), p \in Callers(mode) :
    Command("xq", r, XqMgrSurrender(xq, r, p), None, "keep",
            mode \in {"xq_end", "xq_mid"} => XqPlayedOn(xq[r]) = 0)

XqEnd ==
  \E r \in RoomsOf(mode) :
    Command("xq", r, EndGame(xq, r), None, "fresh", TRUE)

NextXq == XqCreate \/ XqJoinA \/ XqMove \/ XqResign \/ XqEnd

\* the coordinates and move texts each caller sends, on and around A1, B1,
\* C1, A2 and B2
JqFlipInputs(m) ==
  IF m = "jq_war" THEN {<<"A","1">>, <<"B","1">>, <<"C","1">>, <<"A","2">>}
  ELSE IF m = "jq_txt" THEN JqTexts
  ELSE IF m = "jq_late" THEN {<<"A","1">>, <<"A","2">>, <<"D","5">>}
  ELSE IF m = "jq" THEN {<<"A","1">>, <<"b","1">>, <<"3",",","1">>, <<"1","-","2">>, <<"B","2">>, <<"G","1">>}
  ELSE {<<"A","1">>, <<"B","1">>}
JqMoveInputs(m) ==
  IF m = "jq_war"
    THEN {<<"B","1","-","A","1">>, <<"B","1","-","C","1">>, <<"A","2","-","A","1">>,
          <<"C","1","-","B","1">>, <<"B","1","-","B","2">>, <<"A","2","-","B","2">>,
          <<"A","1","-","B","1">>, <<"C","1","-","D","1">>, <<"A","2","-","F","1">>}
  ELSE IF m = "jq_txt" THEN JqMoveTexts
  ELSE IF m = "jq_late"
    THEN {<<"B","2","-","A","2">>, <<"A","2","-","B","2">>, <<"A","2","-","A","3">>,
          <<"A","3","-","A","4">>, <<"B","2","-","B","1">>, <<"B","1","-","A","1">>,
          <<"B","2","-","B","3">>, <<"B","3","-","A","3">>, <<"C","2","-","C","3">>,
          <<"C","2","-","B","2">>, <<"C","2","-","C","1">>, <<"A","1","-","B","1">>,
          <<"C","1","-","B","1">>, <<"D","5","-","D","4">>, <<"D","5","-","C","5">>}
  ELSE IF m = "jq"
    THEN {<<"B","1","-","A","1">>, <<"b","1","c","1">>, <<"B","1",">","B","2">>,
          <<"B","2","-","A","2">>, <<"A","2","-","B","2">>, <<"A","1","-","B","1">>,
          <<"2",",","1","-","1",",","2">>, <<"B","1">>}
    ELSE {<<"B","1","-","A","1">>, <<"A","1","B","1">>}

\* two of the shuffles of _init_board, as the cell of each piece of
\* JqPieceList: blue flag on A1, red engineer on B1, blue bomb on C1, blue
\* platoon on A2 and B2 empty; and the same with the colours exchanged
JqShuffles ==
  {<<3, 0, 4, 5, 8, 9, 10, 11, 12, 2, 13, 14, 15, 16, 17, 18, 19,
     20, 21, 22, 23, 24, 25, 26, 27, 28, 29, 30, 31, 32, 33, 34, 35, 36,
     37, 38, 39, 40, 41, 6, 42, 43, 44, 45, 1, 46, 47, 48, 49, 50>>,
   <<0, 3, 4, 5, 8, 9, 10, 11, 2, 12, 13, 14, 15, 16, 17, 18, 19,
     20, 21, 22, 23, 24, 25, 26, 27, 28, 29, 30, 31, 32, 33, 34, 35, 36,
     37, 38, 39, 40, 6, 41, 42, 43, 44, 45, 46, 1, 47, 48, 49, 50>>}
JqBoards == {JqBoardOf(positions) : positions \in JqShuffles}

\* a shuffle for the workload of battles: blue mine on A1, red platoon on
\* B1, blue platoon on C1, red engineer on A2, B2 and F1 empty
JqWarShuffle ==
  <<3, 4, 8, 0, 9, 10, 11, 12, 13, 14, 15, 16, 17, 18, 19, 20, 21, 22, 23,
    24, 25, 26, 27, 28, 29, 30, 31, 32, 33, 34, 35, 36, 37, 38, 39, 40,
    41, 42, 1, 2, 43, 44, 45, 46, 6, 47, 48, 49, 50, 51>>
\* and one with the blue flag on A1 and a red bomb on B1
JqFlagShuffle ==
  <<3, 0, 4, 8, 9, 10, 11, 12, 1, 13, 14, 15, 16, 17, 18, 19, 20, 21, 22,
    23, 24, 25, 26, 27, 28, 29, 30, 31, 32, 33, 34, 35, 36, 37, 38, 39,
    40, 41, 42, 2, 43, 44, 45, 46, 6, 47, 48, 49, 50, 51>>
JqBoardsIn(m) ==
  IF m = "jq_war" THEN {JqBoardOf(JqWarShuffle), JqBoardOf(JqFlagShuffle)} ELSE JqBoards

\* A session in progress after a hundred flips and moves, every piece left
\* face up: red (the first player, to move) has its commander on B2, a
\* platoon on C2, a mine on E10 and its flag on F10; blue has an engineer on
\* A2, a mine on C1 and its flag on A1
JqFaceUp(piece_type, side) == [Piece(piece_type, side) EXCEPT !.revealed = TRUE]
JqLateBoard ==
  [pos \in 0..(JQ_ROWS * JQ_COLS - 1) |->
     CASE pos = 0 -> JqFaceUp("FLAG", "BLUE")
       [] pos = 2 -> JqFaceUp("MINE", "BLUE")
       [] pos = 6 -> JqFaceUp("ENGINEER", "BLUE")
       [] pos = 7 -> JqFaceUp("COMMANDER", "RED")
       [] pos = 8 -> JqFaceUp("PLATOON", "RED")
       [] pos = JQ_ROWS * JQ_COLS - 2 -> JqFaceUp("MINE", "RED")
       [] pos = JQ_ROWS * JQ_COLS - 1 -> JqFaceUp("FLAG", "RED")
       [] OTHER -> NoPiece]
\* the same with a blue bomb still face down on D5
JqLateBoards ==
  {JqLateBoard, [JqLateBoard EXCEPT ![27] = Piece("BOMB", "BLUE")]}
JqInProgress(board, moves) ==
  [JunqiGame("p1", board) EXCEPT !.player_b = "p2", !.player_a_side = "RED",
                                 !.move_count = moves, !.last_action = "move PLATOON",
                                 !.last_pos = 8]
\* moves since the position in progress
JqPlayedOn(g) == g.move_count % 100

JqCreate ==
  \E r \in RoomsOf(mode), p \in Creators(mode), board \in JqBoardsIn(mode) :
    Command("jq", r, JqCreateGame(jq, r, p, board), None, "fresh", TRUE)

JqJoinA ==
  \E r \in RoomsOf(mode), p \in Joiners(mode) :
    Command("jq", r, JqJoinGame(jq, r, p), None, "keep", TRUE)

JqFlipA ==
  \E r \in RoomsOf(mode), p \in Callers(mode), c \in JqFlipInputs(mode) :
    Command("jq", r, JqMgrFlip(jq, r, p, c), p, "turn",
            /\ mode = "jq" => jq[r].move_count < MaxJqMoves
            /\ mode = "jq_war" => jq[r].move_count < MaxWarMoves
            /\ mode = "jq_txt" => jq[r].move_count < MaxTextMoves
            /\ mode = "jq_late" => JqPlayedOn(jq[r]) < MaxLateMoves)

JqMoveA ==
  \E r \in RoomsOf(mode), p \in Callers(mode), c \in JqMoveInputs(mode) :
    Command("jq", r, JqMgrMove(jq, r, p, c), p, "turn",
            /\ mode = "jq" => jq[r].move_count < MaxJqMoves
            /\ mode = "jq_war" => jq[r].move_count < MaxWarMoves
            /\ mode = "jq_txt" => jq[r].move_count < MaxTextMoves
            /\ mode = "jq_late" => JqPlayedOn(jq[r]) < MaxLateMoves)

JqResign ==
  \E r \in RoomsOf(mode), p \in Callers(mode) :
    Command("jq", r, JqMgrSurrender(jq, r, p), None, "keep", TRUE)

JqEnd ==
  \E r \in RoomsOf(mode) :
    Command("jq", r, EndGame(jq, r), None, "fresh", TRUE)

NextJq == JqCreate \/ JqJoinA \/ JqFlipA \/ JqMoveA \/ JqResign \/ JqEnd

EmptyReg == [r \in Rooms |-> NoGame]

InitIn(modes) ==
  /\ mode \in modes
  /\ nops = 0
  /\ actor = [k \in Kinds |-> [r \in Rooms |-> NoEvent]]
  /\ golog = [r \in Rooms |-> NoLog]
  /\ ttt = EmptyReg /\ gmk = EmptyReg /\ go = EmptyReg
  /\ xq = EmptyReg /\ jq = EmptyReg
  /\ jobs = [r \in Rooms |-> NoJob]
  /\ awaiting = [r \in Rooms |-> FALSE]
  /\ fired = [r \in Rooms |-> NoFire]

Init == InitIn({"ttt", "gmk", "go", "go_ko", "xq", "jq", "all"})

Next == NextTtt \/ NextGmk \/ NextGo \/ NextXq \/ NextJq

Spec == Init /\ [][Next]_vars

\* tic-tac-toe alone, every game played to its end
InitTtt == InitIn({"ttt_full"})
SpecTtt == InitTtt /\ [][NextTtt]_vars

\* placement in tic-tac-toe and gomoku: whole tic-tac-toe games, and gomoku
\* games on two lines of cells per workload
NextPlace == TttCreate \/ TttJoinA \/ TttPlace \/ GmkCreate \/ GmkJoinA \/ GmkPlace
InitGmk == InitIn({"gmk_h", "gmk_d"})
SpecGmk == InitGmk /\ [][GmkCreate \/ GmkJoinA \/ GmkPlace]_vars
InitPlace == InitIn({"ttt_full", "gmk_h", "gmk_d"})
SpecPlace == InitPlace /\ [][NextPlace]_vars

\* go alone: the go workload with its outsider-free callers, the ko
\* workload and the workload of captures
InitGo == InitIn({"go", "go_ko", "go_cap"})
SpecGo == InitGo /\ [][NextGo]_vars

\* the boards that are scored: go games of placements and passes in the go
\* workload, the workload of captures and the workload of territories
\* Xiangqi from the positions in progress: the sessions of room r1 are the
\* inputs, drawn from XqSessions
XqSessions(m) ==
  CASE m = "xq_end" -> [EmptyReg EXCEPT !["r1"] = XqInProgress(XqEndBoard, 60, <<75, 84>>)]
    [] m = "xq_mid" -> [EmptyReg EXCEPT !["r1"] = XqInProgress(XqMidBoard, 40, <<37, 28>>)]
    [] OTHER -> EmptyReg
InitXq ==
  /\ mode \in {"xq_end", "xq_mid"}
  /\ nops = 0
  /\ actor = [k \in Kinds |-> [r \in Rooms |-> NoEvent]]
  /\ golog = [r \in Rooms |-> NoLog]
  /\ ttt = EmptyReg /\ gmk = EmptyReg /\ go = EmptyReg
  /\ xq = XqSessions(mode) /\ jq = EmptyReg
  /\ jobs = [r \in Rooms |-> NoJob]
  /\ awaiting = [r \in Rooms |-> FALSE]
  /\ fired = [r \in Rooms |-> NoFire]
SpecXq == InitXq /\ [][NextXq]_vars

\* The moves of the pieces, over the boards of the opening and of the
\* games in progress
InitPieces ==
  /\ mode \in {"xq", "xq_mid", "xq_end"}
  /\ nops = 0
  /\ actor = [k \in Kinds |-> [r \in Rooms |-> NoEvent]]
  /\ golog = [r \in Rooms |-> NoLog]
  /\ ttt = EmptyReg /\ gmk = EmptyReg /\ go = EmptyReg
  /\ xq = XqSessions(mode) /\ jq = EmptyReg
  /\ jobs = [r \in Rooms |-> NoJob]
  /\ awaiting = [r \in Rooms |-> FALSE]
  /\ fired = [r \in Rooms |-> NoFire]
SpecPieces == InitPieces /\ [][XqCreate \/ XqJoinA \/ XqMove]_vars

\* Junqi played on: the workload with an outsider and the workload of
\* battles, without surrender
\* Junqi from the position in progress
InitLate ==
  /\ mode = "jq_late"
  /\ nops = 0
  /\ actor = [k \in Kinds |-> [r \in Rooms |-> NoEvent]]
  /\ golog = [r \in Rooms |-> NoLog]
  /\ ttt = EmptyReg /\ gmk = EmptyReg /\ go = EmptyReg /\ xq = EmptyReg
  /\ \E board \in JqLateBoards : jq = [EmptyReg EXCEPT !["r1"] = JqInProgress(board, 100)]
  /\ jobs = [r \in Rooms |-> NoJob]
  /\ awaiting = [r \in Rooms |-> FALSE]
  /\ fired = [r \in Rooms |-> NoFire]
SpecLate == InitLate /\ [][JqFlipA \/ JqMoveA]_vars

InitJq == InitIn({"jq", "jq_war"})
SpecJq == InitJq /\ [][JqCreate \/ JqJoinA \/ JqFlipA \/ JqMoveA]_vars

\* The parsers and the labels: sessions of every supported size and the
\* coordinate texts
InitText == InitIn({"gmk_txt", "go_txt", "xq_txt", "jq_txt"})
SpecText ==
  InitText /\ [][GmkCreate \/ GmkJoinA \/ GmkPlace \/ GoCreate \/ GoJoinA \/ GoPlace
                 \/ XqCreate \/ XqJoinA \/ XqMove
                 \/ JqCreate \/ JqJoinA \/ JqFlipA \/ JqMoveA]_vars

InitScore == InitIn({"go", "go_cap", "go_area"})
SpecScore == InitScore /\ [][GoCreate \/ GoJoinA \/ GoPlace \/ GoPass \/ GoCount]_vars

(***************************************************************************)
(* The calls a caller can make in the current state                        *)
(***************************************************************************)
\* the rooms of kind k the workload sends commands to
CalledRooms(k) == IF mode \in MixedModes \/ KindOf(mode) = k THEN RoomsOf(mode) ELSE {}

\* P(k, op, old, r, p, res) holds of every call to the manager of kind k:
\* op is the method, old the registry before the call, r the room, p the
\* caller and res what the method returns with the registry after the call.
TttCalls(P(_, _, _, _, _, _)) ==
  \A r \in CalledRooms("ttt"), p \in Players :
    /\ P("ttt", "create", ttt, r, p, TttCreateGame(ttt, r, p))
    /\ P("ttt", "join", ttt, r, p, TttJoinGame(ttt, r, p))
    /\ \A position \in TttPositions(mode) :
         P("ttt", "place", ttt, r, p, TttMgrMakeMove(ttt, r, p, position))
    /\ P("ttt", "surrender", ttt, r, p, TttMgrSurrender(ttt, r, p))
    /\ P("ttt", "end", ttt, r, p, EndGame(ttt, r))

GmkCalls(P(_, _, _, _, _, _)) ==
  \A r \in CalledRooms("gmk"), p \in Players :
    /\ \A n \in GmkSizesIn(mode) : P("gmk", "create", gmk, r, p, GmkCreateGame(gmk, r, p, n))
    /\ P("gmk", "join", gmk, r, p, GmkJoinGame(gmk, r, p))
    /\ \A c \in GmkInputs(mode, p) :
         P("gmk", "place", gmk, r, p, GmkMgrMakeMove(gmk, r, p, c))
    /\ P("gmk", "surrender", gmk, r, p, GmkMgrSurrender(gmk, r, p))
    /\ P("gmk", "end", gmk, r, p, EndGame(gmk, r))

GoCalls(P(_, _, _, _, _, _)) ==
  \A r \in CalledRooms("go"), p \in Players :
    /\ \A n \in GoSizesIn(mode) : P("go", "create", go, r, p, GoCreateGame(go, r, p, n))
    /\ P("go", "join", go, r, p, GoJoinGame(go, r, p))
    /\ \A c \in GoInputs(mode, p) : P("go", "place", go, r, p, GoMgrMakeMove(go, r, p, c))
    /\ P("go", "pass", go, r, p, GoMgrPassTurn(go, r, p))
    /\ P("go", "undo", go, r, p, GoMgrUndo(go, r, p))
    /\ P("go", "request_score", go, r, p, GoMgrRequestScore(go, r, p))
    /\ P("go", "reject_score", go, r, p, GoMgrRejectScore(go, r, p))
    /\ P("go", "surrender", go, r, p, GoMgrSurrender(go, r, p))
    /\ P("go", "end", go, r, p, EndGame(go, r))

XqCalls(P(_, _, _, _, _, _)) ==
  \A r \in CalledRooms("xq"), p \in Players :
    /\ P("xq", "create", xq, r, p, XqCreateGame(xq, r, p))
    /\ P("xq", "join", xq, r, p, XqJoinGame(xq, r, p))
    /\ \A c \in XqInputs(mode, p) : P("xq", "move", xq, r, p, XqMgrMakeMove(xq, r, p, c))
    /\ P("xq", "surrender", xq, r, p, XqMgrSurrender(xq, r, p))
    /\ P("xq", "end", xq, r, p, EndGame(xq, r))

JqCalls(P(_, _, _, _, _, _)) ==
  \A r \in CalledRooms("jq"), p \in Players :
    /\ \A board \in JqBoards : P("jq", "create", jq, r, p, JqCreateGame(jq, r, p, board))
    /\ P("jq", "join", jq, r, p, JqJoinGame(jq, r, p))
    /\ \A c \in JqFlipInputs(mode) : P("jq", "flip", jq, r, p, JqMgrFlip(jq, r, p, c))
    /\ \A c \in JqMoveInputs(mode) : P("jq", "move", jq, r, p, JqMgrMove(jq, r, p, c))
    /\ P("jq", "surrender", jq, r, p, JqMgrSurrender(jq, r, p))
    /\ P("jq", "end", jq, r, p, EndGame(jq, r))

AllCalls(P(_, _, _, _, _, _)) ==
  TttCalls(P) /\ GmkCalls(P) /\ GoCalls(P) /\ XqCalls(P) /\ JqCalls(P)

\* some call satisfies P
SomeCall(P(_, _, _, _, _, _)) ==
  ~AllCalls(LAMBDA k, op, old, r, p, res : ~P(k, op, old, r, p, res))

\* the two players of a session of kind k and the player to move
FirstPlayer(k, g) ==
  CASE k = "ttt" -> g.player_x
    [] k \in {"gmk", "go"} -> g.player_black
    [] k = "xq" -> g.player_red
    [] k = "jq" -> g.player_a
SecondPlayer(k, g) ==
  CASE k = "ttt" -> g.player_o
    [] k \in {"gmk", "go"} -> g.player_white
    [] k = "xq" -> g.player_black
    [] k = "jq" -> g.player_b
FirstToMove(k, g) ==
  CASE k = "ttt" -> g.current_turn = "X"
    [] k \in {"gmk", "go"} -> g.current_turn = "BLACK"
    [] k = "xq" -> g.current_turn = "RED"
    [] k = "jq" -> g.current_turn = 1
PlayerToMove(k, g) == IF FirstToMove(k, g) THEN FirstPlayer(k, g) ELSE SecondPlayer(k, g)
IsBound(k, g, p) == p = FirstPlayer(k, g) \/ p = SecondPlayer(k, g)
TurnOps == {"place", "pass", "flip", "move"}

\* C1: an operation that returns ok = false leaves the registry of its game
\* kind, and with it every field of the addressed session, as it was before
\* the call.
FailureChangesNothing(k, op, old, r, p, res) == ~res.ok => res.reg = old
C1_FailedCallsChangeNothing == AllCalls(FailureChangesNothing)

\* a go placement is refused as suicide or as a repeated position after its
\* stone was put on the board and stones were taken off, and a xiangqi move
\* is refused after it was tried on the board because it leaves the mover's
\* king attacked
RolledBack(k, op, old, r, p, res) ==
  ~res.ok /\ res.msg \in {"suicide", "superko", "self_check"} /\ res.reg = old
C1_Witness == SomeCall(RolledBack)

\* C2: once a session is finished, no place, move, flip, pass, undo,
\* request_score, reject_score, surrender or join addressed to it changes any
\* of its fields; only end and create change what its room maps to.
FinishedIsImmutable(k, op, old, r, p, res) ==
  (old[r] # NoGame /\ old[r].is_finished /\ op \notin {"create", "end"}) => res.reg = old
C2_FinishedNeverChanges == AllCalls(FinishedIsImmutable)

\* C3: a place, move, flip, pass, undo, surrender, request_score or
\* reject_score by a caller who is neither of the session's bound players
\* returns ok = false and changes nothing.
OutsiderIsRefused(k, op, old, r, p, res) ==
  (old[r] # NoGame /\ ~IsBound(k, old[r], p) /\ op \notin {"create", "join", "end"})
    => (~res.ok /\ res.reg = old)
C3_OutsidersChangeNothing == AllCalls(OutsiderIsRefused)

\* the turn after a successful turn action by p that leaves the session
\* unfinished: it was p's turn and it is the other bound player's
TurnPasses(k, before, after, p) ==
  after.is_finished
  \/ /\ PlayerToMove(k, before) = p
     /\ PlayerToMove(k, after) # p
     /\ PlayerToMove(k, after) # None
     /\ IsBound(k, after, PlayerToMove(k, after))

\* C4 as the claim states it: a successful place, pass, flip or move that
\* does not end the game passes the turn to the other bound player, no other
\* operation on the session changes whose turn it is, and no player makes
\* two successful turn actions without one by the other player between them.
TurnChangesOnlyByTurnActions(k, op, old, r, p, res) ==
  (res.ok /\ op \notin {"create", "end"}) =>
    IF op \in TurnOps THEN TurnPasses(k, old[r], res.reg[r], p)
    ELSE FirstToMove(k, res.reg[r]) = FirstToMove(k, old[r])
C4_TurnsStrictlyAlternate ==
  /\ AllCalls(TurnChangesOnlyByTurnActions)
  /\ \A k \in Kinds, r \in Rooms : actor[k][r].twice = "no"

\* C4 amended: a successful place, pass, flip or move that does not end the
\* game passes the turn to the other bound player; of the other operations
\* only a successful go undo changes whose turn it is, and it gives the turn
\* to its caller, who made the move it takes back; so between two successful
\* turn actions by one player there is a successful turn action by the other
\* player or, in go, a successful undo.
TurnChangesByTurnActionsAndUndo(k, op, old, r, p, res) ==
  (res.ok /\ op \notin {"create", "end"}) =>
    IF op \in TurnOps THEN TurnPasses(k, old[r], res.reg[r], p)
    ELSE IF op = "undo" THEN PlayerToMove(k, res.reg[r]) = p
    ELSE FirstToMove(k, res.reg[r]) = FirstToMove(k, old[r])
C4_TurnsAlternateButForUndo ==
  /\ AllCalls(TurnChangesByTurnActionsAndUndo)
  /\ \A k \in Kinds, r \in Rooms :
       /\ actor[k][r].twice # "bare"
       /\ k # "go" => actor[k][r].twice = "no"

\* a go player has made a move, taken it back and made a move again
C4_Witness ==
  \E r \in Rooms :
    /\ actor["go"][r].twice = "after_undo"
    /\ go[r] # NoGame /\ ~go[r].is_finished
    /\ PlayerToMove("go", go[r]) # actor["go"][r].who

\* a session of kind k as create makes it for p: p is its first player,
\* nobody has joined, it is unfinished and nothing has been played
FreshSession(k, g, p) ==
  /\ FirstPlayer(k, g) = p /\ SecondPlayer(k, g) = None
  /\ ~g.is_finished /\ g.winner = None /\ FirstToMove(k, g)
  /\ CASE k = "ttt" -> \A i \in 0..8 : g.board[i] = "NONE"
       [] k = "gmk" -> /\ \A i \in DOMAIN g.board : g.board[i] = "EMPTY"
                       /\ g.move_count = 0 /\ g.win_line = <<>>
       [] k = "go" -> /\ g.board = GoEmptyBoard /\ g.move_count = 0
                      /\ g.board_history = <<>> /\ ~g.can_undo
                      /\ g.score_request_by = None /\ g.consecutive_passes = 0
                      /\ g.captured_black = 0 /\ g.captured_white = 0
       [] k = "xq" -> g.board = INITIAL_BOARD /\ g.move_count = 0 /\ ~g.in_check
       [] k = "jq" -> /\ JqIsInitialBoard(g.board) /\ g.move_count = 0
                      /\ g.player_a_side = None
                      /\ ~g.red_flag_captured /\ ~g.blue_flag_captured

\* a successful create leaves the room with a fresh session of the caller
CreateMakesFresh(k, old, r, p, res) ==
  res.ok => /\ old[r] = NoGame \/ old[r].is_finished
            /\ res.reg = [old EXCEPT ![r] = res.reg[r]]
            /\ FreshSession(k, res.reg[r], p)

\* C5 as the claim states it: a room has at most one session of a kind;
\* while it is unfinished create fails and returns it unchanged; create
\* succeeds only when the room has no session or a finished one, and then
\* the room has a fresh, unjoined, unfinished session of the caller.
CreateReturnsExisting(k, op, old, r, p, res) ==
  op = "create" =>
    /\ (old[r] # NoGame /\ ~old[r].is_finished)
         => (~res.ok /\ res.game = "game" /\ res.reg = old)
    /\ CreateMakesFresh(k, old, r, p, res)
C5_CreateReturnsExisting == AllCalls(CreateReturnsExisting)

\* C5 amended: while the room's session is unfinished create fails and
\* leaves it unchanged, and returns it unless the board size asked of go or
\* gomoku is unsupported, when it returns no session; create succeeds only
\* when the room has no session or a finished one, and then the room has a
\* fresh, unjoined, unfinished session of the caller.
CreateRefusedWhileUnfinished(k, op, old, r, p, res) ==
  op = "create" =>
    /\ (old[r] # NoGame /\ ~old[r].is_finished)
         => /\ ~res.ok /\ res.reg = old
            /\ res.game = IF res.msg = "bad_size" THEN None ELSE "game"
    /\ res.msg = "bad_size" => k \in {"gmk", "go"}
    /\ CreateMakesFresh(k, old, r, p, res)
C5_CreateRefusedWhileUnfinished == AllCalls(CreateRefusedWhileUnfinished)

\* a create replaces a finished session, and a create of another kind or
\* room is refused because the session there is unfinished
ReplacesFinished(k, op, old, r, p, res) ==
  op = "create" /\ old[r] # NoGame /\ old[r].is_finished /\ res.ok
RefusedForUnfinished(k, op, old, r, p, res) ==
  op = "create" /\ old[r] # NoGame /\ ~old[r].is_finished /\ ~res.ok /\ res.game = "game"
C5_Witness == SomeCall(ReplacesFinished) /\ SomeCall(RefusedForUnfinished)

\* the registry of each kind
Registry(k) ==
  CASE k = "ttt" -> ttt [] k = "gmk" -> gmk [] k = "go" -> go [] k = "xq" -> xq [] k = "jq" -> jq
\* a call leaves the sessions of the other rooms of its kind as they were
OnlyItsRoom(k, op, old, r, p, res) == \A q \in Rooms \ {r} : res.reg[q] = old[q]
\* a step changes the session of at most one room of at most one kind
OneSessionChanges ==
  \E k \in Kinds, r \in Rooms :
    /\ ttt' = IF k = "ttt" THEN [ttt EXCEPT ![r] = ttt'[r]] ELSE ttt
    /\ gmk' = IF k = "gmk" THEN [gmk EXCEPT ![r] = gmk'[r]] ELSE gmk
    /\ go' = IF k = "go" THEN [go EXCEPT ![r] = go'[r]] ELSE go
    /\ xq' = IF k = "xq" THEN [xq EXCEPT ![r] = xq'[r]] ELSE xq
    /\ jq' = IF k = "jq" THEN [jq EXCEPT ![r] = jq'[r]] ELSE jq

\* C6: an operation addressed to room r of one game kind leaves the session
\* of every other room and the sessions of every other game kind unchanged.
C6_OtherSessionsUnchanged == [](AllCalls(OnlyItsRoom)) /\ [][OneSessionChanges]_vars

\* a call changes the session of its room while the other room of its kind
\* and a room of another kind hold sessions
ChangesBesideOthers(k, op, old, r, p, res) ==
  /\ res.ok /\ old[r] # NoGame /\ res.reg[r] # old[r]
  /\ \E q \in Rooms \ {r} : old[q] # NoGame
  /\ \E j \in Kinds \ {k}, q \in Rooms : Registry(j)[q] # NoGame
C6_Witness == SomeCall(ChangesBesideOthers)

\* what the winner field names when p has lost: the other side in
\* tic-tac-toe, gomoku, go and xiangqi, the other player in junqi (None
\* where nobody has joined)
OtherSide(k, g, p) ==
  CASE k = "ttt" -> IF p = g.player_x THEN "O" ELSE "X"
    [] k \in {"gmk", "go"} -> IF p = g.player_black THEN "WHITE" ELSE "BLACK"
    [] k = "xq" -> IF p = g.player_red THEN "BLACK" ELSE "RED"
    [] k = "jq" -> IF p = g.player_a THEN g.player_b ELSE g.player_a

\* C7: surrender by a bound player on an unfinished session succeeds
\* whoever's turn it is, makes the session finished with the other side as
\* winner and changes no other field: the board, the side to move and all
\* counters stay as they were.
SurrenderEndsForOther(k, op, old, r, p, res) ==
  (op = "surrender" /\ old[r] # NoGame /\ ~old[r].is_finished /\ IsBound(k, old[r], p))
    => /\ res.ok
       /\ res.reg[r] = [old[r] EXCEPT !.is_finished = TRUE, !.winner = OtherSide(k, old[r], p)]
C7_SurrenderEndsForOther == AllCalls(SurrenderEndsForOther)

\* a player surrenders a joined and unfinished game in which it is the
\* other player's turn
SurrenderOutOfTurn(k, op, old, r, p, res) ==
  /\ op = "surrender" /\ res.ok /\ old[r] # NoGame
  /\ SecondPlayer(k, old[r]) # None
  /\ PlayerToMove(k, old[r]) # p
  /\ res.reg[r].is_finished /\ res.reg[r].winner = OtherSide(k, old[r], p)
C7_Witness == SomeCall(SurrenderOutOfTurn)

\* the three rows, the three columns and the two diagonals of the 3x3 board
TttLines ==
  {{3 * i, 3 * i + 1, 3 * i + 2} : i \in 0..2} \cup {{i, i + 3, i + 6} : i \in 0..2}
  \cup {{0, 4, 8}, {2, 4, 6}}
TttHasLine(board, mark) == \E line \in TttLines : \A i \in line : board[i] = mark
TttFull(board) == \A i \in 0..8 : board[i] # "NONE"
TttOutcomeOf(mark, before, after, p) ==
  /\ (after.is_finished /\ after.winner = mark) <=> TttHasLine(after.board, mark)
  /\ ~TttHasLine(after.board, mark)
       => ((after.is_finished /\ after.winner = None) <=> TttFull(after.board))
  /\ (~TttHasLine(after.board, mark) /\ ~TttFull(after.board))
       => /\ ~after.is_finished
          /\ after.current_turn = (IF mark = "X" THEN "O" ELSE "X")
          /\ TurnPasses("ttt", before, after, p)

\* C8: after a successful tic-tac-toe placement the game is finished with
\* the mover as winner iff one of the 8 lines is all the mover's symbol;
\* otherwise it is finished without a winner iff all 9 cells are occupied;
\* otherwise it is unfinished and it is the other player's turn.  A ninth
\* move that completes a line is a win.
TttOutcome(k, op, old, r, p, res) ==
  (op = "place" /\ res.ok) => TttOutcomeOf(old[r].current_turn, old[r], res.reg[r], p)
C8_TttOutcome == TttCalls(TttOutcome)

\* a game that the ninth mark has won: the board is full and the winner
\* has a line
C8_Witness ==
  \E r \in Rooms :
    /\ ttt[r] # NoGame /\ ttt[r].is_finished
    /\ TttFull(ttt[r].board)
    /\ ttt[r].winner = "X" /\ TttHasLine(ttt[r].board, "X")

\* the positions and the coordinates placements are tried with: on the
\* board, on its edges and off it
TttTargets == 0..10
GmkTargets == {-1, 0, 1, 2, 7, 8, 12, 13}

\* a tic-tac-toe placement by p at position succeeds iff the session is
\* unfinished and joined, it is p's turn, the position is one of the nine
\* cells and that cell is empty; it then marks that cell and no other
TttPlacement(g, p, position, res) ==
  /\ res.ok <=> /\ ~g.is_finished /\ g.player_o # None
                /\ PlayerToMove("ttt", g) = p
                /\ position \in 1..9
                /\ g.board[position - 1] = "NONE"
  /\ res.ok => res.g.board = [g.board EXCEPT ![position - 1] = g.current_turn]
\* the same for gomoku at column x and row y of an n x n board
GmkPlacement(g, p, x, y, res) ==
  /\ res.ok <=> /\ ~g.is_finished /\ g.player_white # None
                /\ PlayerToMove("gmk", g) = p
                /\ x \in 0..(g.board_size - 1) /\ y \in 0..(g.board_size - 1)
                /\ g.board[y * g.board_size + x] = "EMPTY"
  /\ res.ok => res.g.board = [g.board EXCEPT ![y * g.board_size + x] = g.current_turn]

\* C9: in tic-tac-toe and gomoku a placement by p succeeds iff the session
\* is unfinished, the second player has joined, it is p's turn, the target
\* is on the board and the target cell is empty; on success exactly that
\* cell changes, to the mover's symbol.
C9_PlacementSucceedsIff ==
  \A r \in Rooms, p \in Players :
    /\ ttt[r] # NoGame =>
         \A position \in TttTargets :
           TttPlacement(ttt[r], p, position, TttMakeMove(ttt[r], p, position))
    /\ gmk[r] # NoGame =>
         \A x \in GmkTargets, y \in GmkTargets :
           GmkPlacement(gmk[r], p, x, y, GmkMakeMove(gmk[r], p, x, y))

\* stones are on a gomoku board and the player to move is refused a cell
\* that holds one and given the empty cell beside it
C9_Witness ==
  \E r \in Rooms, x \in 0..11 :
    /\ gmk[r] # NoGame /\ gmk[r].move_count >= 2
    /\ GmkMakeMove(gmk[r], PlayerToMove("gmk", gmk[r]), x, 0).msg = "occupied"
    /\ GmkMakeMove(gmk[r], PlayerToMove("gmk", gmk[r]), x + 1, 0).ok

\* the four axes: horizontal, vertical and the two diagonals
GmkAxes == {<<1, 0>>, <<0, 1>>, <<1, 1>>, <<1, -1>>}
\* is the cell t steps from pos along axis d on the n x n board, and which
GmkInside(n, pos, d, t) ==
  /\ (pos % n) + t * d[1] \in 0..(n - 1)
  /\ (pos \div n) + t * d[2] \in 0..(n - 1)
GmkCellAt(n, pos, d, t) == ((pos \div n) + t * d[2]) * n + (pos % n) + t * d[1]
\* the steps from pos along axis d that stay within the contiguous run of
\* the colour of pos
GmkRunSteps(board, n, pos, d) ==
  {t \in (1 - n)..(n - 1) :
     \A u \in (IF t < 0 THEN t..0 ELSE 0..t) :
       GmkInside(n, pos, d, u) /\ board[GmkCellAt(n, pos, d, u)] = board[pos]}
GmkRunOfFive(board, n, pos) ==
  \E d \in GmkAxes : Cardinality(GmkRunSteps(board, n, pos, d)) >= 5
\* line holds each of its cells once, and they are the cells from a steps
\* behind pos to b steps ahead of it on one axis, all of colour mark
GmkStraightLine(board, n, pos, line, mark) ==
  /\ \A i \in 1..Len(line) : board[line[i]] = mark
  /\ \E d \in GmkAxes, a \in -4..0, b \in 0..4 :
       /\ Len(line) = b - a + 1
       /\ \A t \in a..b : GmkInside(n, pos, d, t)
       /\ {line[i] : i \in 1..Len(line)} = {GmkCellAt(n, pos, d, t) : t \in a..b}

\* C10: after a successful gomoku placement the game is finished with the
\* mover as winner and a recorded win line iff the new stone lies in a
\* contiguous run of its colour of length 5 or more on one of the four axes
\* (6 or more also wins); the recorded line holds only cells of the winner's
\* colour on one straight contiguous line through the new stone.
GmkOutcome(k, op, old, r, p, res) ==
  (op = "place" /\ res.ok) =>
    /\ (res.reg[r].is_finished /\ res.reg[r].winner = old[r].current_turn
          /\ res.reg[r].win_line # <<>>)
         <=> GmkRunOfFive(res.reg[r].board, res.reg[r].board_size, res.reg[r].last_move)
    /\ GmkRunOfFive(res.reg[r].board, res.reg[r].board_size, res.reg[r].last_move)
         \/ (res.reg[r].win_line = <<>> /\ res.reg[r].winner = None)
    /\ res.reg[r].win_line # <<>> =>
         GmkStraightLine(res.reg[r].board, res.reg[r].board_size, res.reg[r].last_move,
                         res.reg[r].win_line, old[r].current_turn)
C10_GmkOutcome == GmkCalls(GmkOutcome)

\* a game won by a stone that joins two runs into a line of six
C10_Witness ==
  \E r \in Rooms :
    /\ gmk[r] # NoGame /\ gmk[r].is_finished
    /\ gmk[r].winner = "BLACK" /\ Len(gmk[r].win_line) = 6
    /\ gmk[r].win_line[1] = gmk[r].last_move

(***************************************************************************)
(* Go: the rules as the claims state them                                  *)
(***************************************************************************)
\* the columns and rows of the cells a placement is tried at
GoTargetColumns == 0..3
GoTargetRows == 0..2
\* P(g, p, x, y, res) holds of every make_move(p, x, y) on a go session g
\* of the workload, which returns res
GoPlacements(P(_, _, _, _, _)) ==
  \A r \in CalledRooms("go"), p \in Players, x \in GoTargetColumns, y \in GoTargetRows :
    go[r] # NoGame => P(go[r], p, x, y, GoMakeMove(go[r], p, x, y))
SomeGoPlacement(P(_, _, _, _, _)) ==
  ~GoPlacements(LAMBDA g, p, x, y, res : ~P(g, p, x, y, res))

\* cells a and b of a board of size n are orthogonally adjacent
GoAdjacent(n, a, b) ==
  \/ a \div n = b \div n /\ (a - b = 1 \/ b - a = 1)
  \/ a % n = b % n /\ (a - b = n \/ b - a = n)
\* the cells of the set of cells among that are joined to a cell of chain by
\* a path of adjacent cells of among
RECURSIVE GoJoined(_, _, _)
GoJoined(n, among, chain) ==
  LET more == {q \in among \ chain : \E c \in chain : GoAdjacent(n, q, c)}
  IN IF more = {} THEN chain ELSE GoJoined(n, among, chain \cup more)
\* the group of the stone at cell q: the stones of its colour joined to it
GoGroupOf(board, n, q) == GoJoined(n, board[GoStone(board, q)], {q})
\* the group has no liberty: no empty cell is adjacent to one of its stones
GoNoLiberty(board, n, group) ==
  \A q \in group : \A e \in GoCells(n) :
    GoAdjacent(n, q, e) => e \in board.BLACK \cup board.WHITE
\* the stones of colour opp that the stone at pos kills: those of the groups
\* adjacent to pos that have no liberty
GoKilled(board, n, pos, opp) ==
  {q \in board[opp] :
     /\ \E c \in GoGroupOf(board, n, q) : GoAdjacent(n, c, pos)
     /\ GoNoLiberty(board, n, GoGroupOf(board, n, q))}
\* the board with a stone of colour stone more at pos
GoWithStone(board, pos, stone) == [board EXCEPT ![stone] = @ \cup {pos}]
\* the tally of the stones player p has captured in session g
GoTallyOf(g, p) == IF p = g.player_black THEN g.captured_white ELSE g.captured_black

\* C11: after a successful go placement the opponent's stones on the board
\* are those of before without the stones of every opponent group that is
\* adjacent to the new stone and has no liberty with the new stone on the
\* board, the mover's stones are those of before and the new stone, and the
\* mover's capture tally has grown by the number of stones removed while the
\* opponent's tally is as before.
GoRemovesTheKilled(g, p, x, y, res) ==
  res.ok =>
    LET n == g.board_size
        pos == y * n + x
        stone == GoColourOf(g, p)
        opp == IF stone = "BLACK" THEN "WHITE" ELSE "BLACK"
        killed == GoKilled(GoWithStone(g.board, pos, stone), n, pos, opp)
    IN /\ res.g.board[opp] = g.board[opp] \ killed
       /\ res.g.board[stone] = g.board[stone] \cup {pos}
       /\ GoTallyOf(res.g, p) = GoTallyOf(g, p) + Cardinality(killed)
       /\ res.g.captured_black + res.g.captured_white
            = g.captured_black + g.captured_white + Cardinality(killed)
C11_GoCaptures == GoPlacements(GoRemovesTheKilled)
\* a placement takes a group of two stones or more off the board
GoTakesGroup(g, p, x, y, res) ==
  /\ res.ok
  /\ \E q \in g.board.BLACK \cup g.board.WHITE :
       /\ Cardinality(GoGroupOf(g.board, g.board_size, q)) >= 2
       /\ GoGroupOf(g.board, g.board_size, q) \cap (res.g.board.BLACK \cup res.g.board.WHITE) = {}
C11_Witness == SomeGoPlacement(GoTakesGroup)
\* a placement takes two groups off the board at once
GoTakesTwoGroups(g, p, x, y, res) ==
  /\ res.ok
  /\ \E q1, q2 \in g.board.BLACK \cup g.board.WHITE :
       /\ q2 \notin GoGroupOf(g.board, g.board_size, q1)
       /\ {q1, q2} \cap (res.g.board.BLACK \cup res.g.board.WHITE) = {}
GoSomeTakesTwoGroups == SomeGoPlacement(GoTakesTwoGroups)

\* player p may place a stone at column x and row y of session g as far as
\* the session, the turn and the cell go
GoMayTry(g, p, x, y) ==
  /\ ~g.is_finished
  /\ g.player_white # None
  /\ p = PlayerToMove("go", g)
  /\ x \in 0..(g.board_size - 1) /\ y \in 0..(g.board_size - 1)
  /\ y * g.board_size + x \notin g.board.BLACK \cup g.board.WHITE
\* the board with the stone at pos and without the stones it kills
GoAfterCapture(board, n, pos, stone) ==
  LET opp == IF stone = "BLACK" THEN "WHITE" ELSE "BLACK"
  IN [GoWithStone(board, pos, stone) EXCEPT
        ![opp] = @ \ GoKilled(GoWithStone(board, pos, stone), n, pos, opp)]
\* the placement is suicide: once the killed groups are off the board the
\* group of the new stone has no liberty
GoIsSuicide(g, p, x, y) ==
  LET n == g.board_size
      pos == y * n + x
  IN /\ GoMayTry(g, p, x, y)
     /\ GoNoLiberty(GoAfterCapture(g.board, n, pos, GoColourOf(g, p)), n,
                    GoGroupOf(GoAfterCapture(g.board, n, pos, GoColourOf(g, p)), n, pos))

\* C12: a go placement that would leave the mover's own group without a
\* liberty once the captured opponent groups are removed is rejected as
\* suicide, and the board, both capture tallies, the history and the side to
\* move are as before the attempt.
GoRejectsSuicide(g, p, x, y, res) ==
  GoIsSuicide(g, p, x, y) =>
    /\ ~res.ok /\ res.msg = "suicide"
    /\ res.g.board = g.board
    /\ res.g.captured_black = g.captured_black
    /\ res.g.captured_white = g.captured_white
    /\ res.g.board_history = g.board_history
    /\ res.g.current_turn = g.current_turn
C12_GoSuicideRejected == GoPlacements(GoRejectsSuicide)
\* a suicide that would add a stone to a group of the mover is tried
GoSuicideOfGroup(g, p, x, y, res) ==
  /\ GoIsSuicide(g, p, x, y)
  /\ ~res.ok
  /\ \E q \in g.board[GoColourOf(g, p)] : GoAdjacent(g.board_size, q, y * g.board_size + x)
C12_Witness == SomeGoPlacement(GoSuicideOfGroup)

\* the position a placement that is not suicide leaves on the board
GoPositionAfter(g, p, x, y) ==
  GoAfterCapture(g.board, g.board_size, y * g.board_size + x, GoColourOf(g, p))
\* the placement repeats a position of the history
GoRepeats(g, p, x, y) ==
  /\ GoMayTry(g, p, x, y)
  /\ ~GoIsSuicide(g, p, x, y)
  /\ \E i \in DOMAIN g.board_history : g.board_history[i] = GoPositionAfter(g, p, x, y)
GoRejectsRepetition(g, p, x, y, res) ==
  GoRepeats(g, p, x, y) =>
    ~res.ok /\ res.msg = "superko" /\ res.g.board = g.board
                /\ res.g.board_history = g.board_history
\* no two entries of the history of a session are equal
GoHistoryIsRepetitionFree ==
  \A r \in CalledRooms("go") :
    go[r] # NoGame =>
      \A i, j \in DOMAIN go[r].board_history :
        i # j => go[r].board_history[i] # go[r].board_history[j]

\* C13: in every reachable go state, also after an undo, no two entries of
\* the history of positions are equal, and a placement whose resulting
\* position equals a position of the history is rejected with the board as
\* it was before the attempt.
C13_GoSuperko == GoHistoryIsRepetitionFree /\ GoPlacements(GoRejectsRepetition)
\* the retaking of a ko is tried after a placement has been taken back
GoRetakesKo(g, p, x, y, res) ==
  /\ GoRepeats(g, p, x, y) /\ ~res.ok
  /\ GoKilled(GoWithStone(g.board, y * g.board_size + x, GoColourOf(g, p)), g.board_size,
              y * g.board_size + x, IF GoColourOf(g, p) = "BLACK" THEN "WHITE" ELSE "BLACK") # {}
C13_Witness ==
  /\ SomeGoPlacement(GoRetakesKo)
  /\ \E r \in CalledRooms("go") : actor["go"][r].twice = "after_undo"

\* the stones of a colour captured so far and those on the board are no more
\* than the stones of that colour placed and not taken back
GoStonesAccounted(g, placed) ==
  /\ g.captured_black + Cardinality(g.board.BLACK) <= placed.BLACK
  /\ g.captured_white + Cardinality(g.board.WHITE) <= placed.WHITE

\* C14: in every reachable go state and for each colour, the stones of that
\* colour captured so far plus its stones on the board are no more than the
\* stones of that colour placed so far, also after undos (the placements
\* counted are those not taken back, which are no more than all placements).
C14_GoStonesAccounted ==
  \A r \in CalledRooms("go") : go[r] # NoGame => GoStonesAccounted(go[r], golog[r].placed)
\* white stones have been captured and a later placement was taken back
C14_Witness ==
  \E r \in CalledRooms("go") :
    /\ go[r] # NoGame
    /\ go[r].captured_white > 0
    /\ actor["go"][r].undone
    /\ golog[r].placed.WHITE > Cardinality(go[r].board.WHITE)

\* the last successful turn action of the go session of room r was a pass
\* by a player other than p
GoPassedBefore(r, p) ==
  golog[r].last = "pass" /\ actor["go"][r].who \notin {None, p}
\* a successful pass ends the game exactly when it follows a pass of the
\* other player with no placement in between; a successful placement ends
\* nothing and sets the counter of consecutive passes to zero
GoPassing(k, op, old, r, p, res) ==
  /\ op = "pass" /\ res.ok =>
       /\ ~old[r].is_finished
       /\ res.reg[r].is_finished <=> GoPassedBefore(r, p)
       /\ res.msg = "two_passes" <=> GoPassedBefore(r, p)
  /\ op = "place" /\ res.ok =>
       ~res.reg[r].is_finished /\ res.reg[r].consecutive_passes = 0
\* in an unfinished session the counter says whether the last turn action
\* was a pass
GoPassCounter ==
  \A r \in CalledRooms("go") :
    go[r] # NoGame /\ ~go[r].is_finished =>
      go[r].consecutive_passes = IF golog[r].last = "pass" THEN 1 ELSE 0

\* C15: a go game ends by passing exactly when a successful pass follows a
\* successful pass of the other player with no stone placed in between; a
\* first pass, or a pass after a placement that followed a pass, ends
\* nothing, and every successful placement sets the counter of consecutive
\* passes to zero.
C15_GoTwoPassesEnd == GoCalls(GoPassing) /\ GoPassCounter
\* a pass ends the game, in a session in which a stone stands on the board
GoSecondPass(k, op, old, r, p, res) ==
  /\ op = "pass" /\ res.ok /\ res.reg[r].is_finished
  /\ old[r].move_count > 0
\* a pass after a placement that followed a pass does not end the game
GoPassAfterPlacement(k, op, old, r, p, res) ==
  /\ op = "pass" /\ res.ok /\ ~res.reg[r].is_finished
  /\ golog[r].last = "place" /\ golog[r].earlier = "pass"
C15_Witness == SomeCall(GoPassAfterPlacement)
GoSomeSecondPass == SomeCall(GoSecondPass)

\* player p made the last successful turn action of the go session of room
\* r, it was a placement, and no undo has followed it
GoMayUndo(r, p) ==
  /\ golog[r].last = "place"
  /\ ~actor["go"][r].undone
  /\ actor["go"][r].who = p
GoUndoOnlyOwnLastPlacement(k, op, old, r, p, res) ==
  op = "undo" /\ res.ok => ~old[r].is_finished /\ GoMayUndo(r, p)

\* C16: a go undo succeeds only if the game is unfinished, the last
\* successful turn action was a placement (not a pass) that no undo has
\* followed, and the caller is the player who made that placement; so after
\* a successful undo every undo fails until a stone has been placed again.
C16_GoUndoOnlyOwnLastPlacement == GoCalls(GoUndoOnlyOwnLastPlacement)
\* after a successful undo the same player asks for an undo again
GoSecondUndo(k, op, old, r, p, res) ==
  /\ op = "undo" /\ ~res.ok
  /\ golog[r].last = "place" /\ actor["go"][r].undone /\ actor["go"][r].who = p
  /\ old[r] # NoGame /\ ~old[r].is_finished
C16_Witness == SomeCall(GoSecondUndo)
\* an undo of one's own last placement succeeds after the other player has
\* asked for scoring
GoUndoSucceeds(k, op, old, r, p, res) ==
  op = "undo" /\ res.ok /\ old[r].score_request_by \notin {None, p}
GoSomeUndoSucceeds == SomeCall(GoUndoSucceeds)
\* whenever the conditions of C16 hold the undo succeeds
GoUndoWheneverAllowed(k, op, old, r, p, res) ==
  op = "undo" /\ old[r] # NoGame /\ ~old[r].is_finished /\ GoMayUndo(r, p) => res.ok
GoUndoIsExactlyOwnLastPlacement == GoCalls(GoUndoWheneverAllowed)

\* the placement at cell at of the board by player p on session g
GoPlaceAgain(g, p, at) == GoMakeMove(g, p, at % g.board_size, at \div g.board_size)
\* a successful undo gives back what the session held just before the
\* placement it takes back, drops the position of that placement from the
\* end of the history, and the same placement then succeeds and leads to the
\* position that was taken back
GoUndoRestores(k, op, old, r, p, res) ==
  op = "undo" /\ res.ok =>
    /\ GoUndoable(res.reg[r]) = golog[r].before
    /\ old[r].board_history = Append(res.reg[r].board_history, old[r].board)
    /\ GoPlaceAgain(res.reg[r], p, golog[r].at).ok
    /\ GoPlaceAgain(res.reg[r], p, golog[r].at).g.board = old[r].board

\* C17: a successful go undo restores the board, both capture tallies, the
\* side to move and the move counter to their values just before the
\* placement it takes back and removes that placement's position, and no
\* other, from the history, so that the same placement is legal again.
C17_GoUndoRestores == GoCalls(GoUndoRestores)
\* the undo of a placement that captured succeeds
GoUndoOfCapture(k, op, old, r, p, res) ==
  /\ op = "undo" /\ res.ok
  /\ Cardinality(res.reg[r].board.BLACK \cup res.reg[r].board.WHITE)
       >= Cardinality(old[r].board.BLACK \cup old[r].board.WHITE)
  /\ res.reg[r].board_history # <<>>
C17_Witness == SomeCall(GoUndoOfCapture)

\* the player whose request for scoring is pending in the go session of
\* room r: the one who asked with no placement, pass or rejection since
GoPending(r) == golog[r].asked
GoScoringAgreement(k, op, old, r, p, res) ==
  /\ op = "request_score" /\ res.ok /\ res.reg[r].is_finished =>
       /\ ~old[r].is_finished
       /\ IsBound("go", old[r], p)
       /\ IsBound("go", old[r], GoPending(r))
       /\ GoPending(r) # p
  /\ op = "request_score" /\ res.ok /\ ~res.reg[r].is_finished =>
       GoPending(r) = None /\ res.reg[r].score_request_by = p
  /\ op = "request_score" /\ GoPending(r) = p => ~res.ok /\ res.reg = old
  /\ op \in {"place", "pass"} /\ res.ok => res.reg[r].score_request_by = None
\* the request the session holds is the pending one
GoOneRequestPending ==
  \A r \in CalledRooms("go") : go[r] # NoGame => go[r].score_request_by = GoPending(r)

\* C18: a go game is ended by scoring agreement only when a request by one
\* bound player is pending and the other bound player requests; one request
\* at most is pending, a repeated request by the same player is rejected
\* and ends nothing, and a successful placement or pass cancels the pending
\* request, so that a single request after it ends nothing.
C18_GoScoringAgreement == GoCalls(GoScoringAgreement) /\ GoOneRequestPending
\* a request is pending that the player to move can agree to or cancel by a
\* placement, and the requester's own second request is refused
GoAgrees(k, op, old, r, p, res) ==
  op = "request_score" /\ res.ok /\ res.reg[r].is_finished
GoCancelsRequest(k, op, old, r, p, res) ==
  op = "place" /\ res.ok /\ GoPending(r) # None
GoAsksAgain(k, op, old, r, p, res) ==
  op = "request_score" /\ ~res.ok /\ GoPending(r) = p /\ ~old[r].is_finished
C18_Witness ==
  SomeCall(GoAgrees) /\ SomeCall(GoCancelsRequest) /\ SomeCall(GoAsksAgain)

\* the session g with no request for scoring pending and all else as it is
GoWithoutRequest(g) == [g EXCEPT !.score_request_by = None]
GoRejection(k, op, old, r, p, res) ==
  op = "reject_score" /\ old[r] # NoGame =>
    /\ GoPending(r) # None /\ GoPending(r) # p /\ IsBound("go", old[r], p) =>
         res.ok /\ res.reg = [old EXCEPT ![r] = GoWithoutRequest(old[r])]
    /\ GoPending(r) = None \/ GoPending(r) = p => ~res.ok /\ res.reg = old

\* C19: reject_score by the bound player who did not make the pending
\* request succeeds, clears the pending request and changes nothing else of
\* the session (board, turn, counters, right to undo, terminal flag);
\* reject_score by the requester, or with no request pending, fails and
\* changes nothing.
C19_GoRejection == GoCalls(GoRejection)
\* a request is pending after a placement that can still be undone: the
\* other player's rejection succeeds and the requester's own fails
GoRejectsRequest(k, op, old, r, p, res) ==
  /\ op = "reject_score" /\ res.ok
  /\ IsBound("go", old[r], p) /\ old[r].can_undo /\ old[r].move_count > 0
GoRejectsOwnRequest(k, op, old, r, p, res) ==
  op = "reject_score" /\ ~res.ok /\ GoPending(r) = p
C19_Witness == SomeCall(GoRejectsRequest) /\ SomeCall(GoRejectsOwnRequest)

\* the empty cells of a board of size n
GoEmpty(board, n) == GoCells(n) \ (board.BLACK \cup board.WHITE)
\* the cells of among joined to a cell of edge by a path of adjacent cells of
\* among, of which reached are known
\* the cells adjacent to a cell of the set cells
GoNextTo(n, cells) ==
  UNION {{q \in {c - 1, c + 1, c - n, c + n} : q \in GoCells(n) /\ GoAdjacent(n, q, c)} :
           c \in cells}
RECURSIVE GoSpread(_, _, _, _)
GoSpread(n, among, reached, edge) ==
  LET more == (GoNextTo(n, edge) \cap among) \ reached
  IN IF more = {} THEN reached ELSE GoSpread(n, among, reached \cup more, more)
\* the empty cells of the maximal empty regions that a stone of the colour
\* borders: those joined through empty cells to an empty cell next to one
GoBorderedBy(board, n, colour) ==
  GoSpread(n, GoEmpty(board, n), GoNextTo(n, board[colour]) \cap GoEmpty(board, n),
           GoNextTo(n, board[colour]) \cap GoEmpty(board, n))
\* the territory of a colour: the empty cells of the regions that stones of
\* this colour border and no stone of the other colour
GoTerritoryOf(board, n, colour) ==
  GoBorderedBy(board, n, colour)
    \ GoBorderedBy(board, n, IF colour = "BLACK" THEN "WHITE" ELSE "BLACK")
\* what count_territory returns for session g is the area score of the board
\* (scores in half points)
GoAreaScore(g, sc) ==
  /\ sc.black_stones = Cardinality(g.board.BLACK)
  /\ sc.white_stones = Cardinality(g.board.WHITE)
  /\ sc.black_territory = Cardinality(GoTerritoryOf(g.board, g.board_size, "BLACK"))
  /\ sc.white_territory = Cardinality(GoTerritoryOf(g.board, g.board_size, "WHITE"))
  /\ sc.score_b = 2 * (sc.black_stones + sc.black_territory)
  /\ sc.score_w = 2 * (sc.white_stones + sc.white_territory) + KOMI
  /\ sc.black_territory + sc.white_territory <= Cardinality(GoEmpty(g.board, g.board_size))
  /\ sc.score_b + sc.score_w
       = 2 * (sc.black_stones + sc.white_stones + sc.black_territory + sc.white_territory) + KOMI

\* C20: for every go board count_territory returns as black's score the
\* black stones plus the empty cells of the maximal empty regions bordered
\* by black stones only, and as white's score the white stones plus the
\* empty cells of the regions bordered by white stones only plus komi; a
\* region bordered by both colours or by no stone counts for nobody, no
\* empty cell counts for both, and the scores sum to stones plus scored
\* territory plus komi.
C20_GoAreaScore ==
  \A r \in CalledRooms("go") : go[r] # NoGame => GoAreaScore(go[r], GoCountTerritory(go[r]))
\* a board with a region that is black's, a region that is white's and a
\* region that both colours border
C20_Witness ==
  \E r \in CalledRooms("go") :
    /\ go[r] # NoGame
    /\ GoCountTerritory(go[r]).black_territory > 0
    /\ GoCountTerritory(go[r]).white_territory > 0
    /\ GoCountTerritory(go[r]).black_territory + GoCountTerritory(go[r]).white_territory
         < Cardinality(GoEmpty(go[r].board, go[r].board_size))
\* a board with stones of one colour only, whose empty cells are all that
\* colour's
GoSomeWholeBoard ==
  \E r \in CalledRooms("go") :
    /\ go[r] # NoGame /\ go[r].board.BLACK # {} /\ go[r].board.WHITE = {}
    /\ GoCountTerritory(go[r]).black_territory = Cardinality(GoEmpty(go[r].board, go[r].board_size))
\* a board with a region that is white's
GoSomeWhiteTerritory ==
  \E r \in CalledRooms("go") :
    go[r] # NoGame /\ GoCountTerritory(go[r]).white_territory > 0 /\ go[r].board.BLACK # {}
\* a finished session whose scores are those of its board
GoSomeScored ==
  \E r \in CalledRooms("go") :
    /\ go[r] # NoGame /\ go[r].is_finished /\ go[r].board.BLACK # {}
    /\ go[r].score_black = GoCountTerritory(go[r]).score_b
    /\ go[r].score_white = GoCountTerritory(go[r]).score_w

\* the area scores of a board in half points: stones plus territory, and
\* komi for white
GoAreaOf(board, n, colour) ==
  2 * (Cardinality(board[colour]) + Cardinality(GoTerritoryOf(board, n, colour)))
     + (IF colour = "WHITE" THEN KOMI ELSE 0)
\* the session holds the area scores of its board and the winner they name
GoScored(g) ==
  /\ g.score_black = GoAreaOf(g.board, g.board_size, "BLACK")
  /\ g.score_white = GoAreaOf(g.board, g.board_size, "WHITE")
  /\ g.winner = IF g.score_black > g.score_white THEN "BLACK"
                ELSE IF g.score_white > g.score_black THEN "WHITE" ELSE None
GoEndsScored(k, op, old, r, p, res) ==
  op \in {"pass", "request_score"} /\ res.ok /\ res.reg[r].is_finished =>
    /\ ~old[r].is_finished
    /\ res.reg[r].board = old[r].board
    /\ GoScored(res.reg[r])

\* C21: whenever a go game ends by a second pass or by scoring agreement,
\* the stored score_black and score_white are the area scores of the final
\* board, and the winner is black if score_black is the greater, white if
\* score_white is the greater, and nobody if they are equal.
C21_GoEndsScored == GoCalls(GoEndsScored)
\* a game ends by agreement with more black stones than white on the board
\* and white the winner
GoKomiDecides(k, op, old, r, p, res) ==
  /\ op = "request_score" /\ res.ok /\ res.reg[r].is_finished
  /\ Cardinality(old[r].board.BLACK) > Cardinality(old[r].board.WHITE)
  /\ res.reg[r].winner = "WHITE"
C21_Witness == SomeCall(GoKomiDecides)
\* a game ends by a second pass and black wins
GoBlackWinsByPass(k, op, old, r, p, res) ==
  op = "pass" /\ res.ok /\ res.reg[r].is_finished /\ res.reg[r].winner = "BLACK"
GoSomeBlackWinsByPass == SomeCall(GoBlackWinsByPass)
(***************************************************************************)
(* Xiangqi: the rules as the claims state them, over every make_move of    *)
(* the player to move from every cell to every cell in the sessions        *)
(* reached; a caller who is not to move, or any caller of a session that   *)
(* is finished or not joined, is answered before the cells are read and    *)
(* tries the kings' cells of the start and the far corner.                 *)
(***************************************************************************)
XqTried(g, p) ==
  IF g.is_finished \/ g.player_black = None
     \/ p # (IF g.current_turn = "RED" THEN g.player_red ELSE g.player_black)
    THEN {4, 85, 89} ELSE 0..89
XqMoves(P(_, _, _, _, _)) ==
  \A r \in CalledRooms("xq") :
    xq[r] # NoGame =>
      \A p \in Players : \A from_pos \in XqTried(xq[r], p), to_pos \in XqTried(xq[r], p) :
        P(xq[r], p, from_pos, to_pos, XqMakeMove(xq[r], p, from_pos, to_pos))
SomeXqMove(P(_, _, _, _, _)) ==
  \E r \in CalledRooms("xq") :
    /\ xq[r] # NoGame
    /\ \E p \in Players : \E from_pos \in XqTried(xq[r], p), to_pos \in XqTried(xq[r], p) :
         P(xq[r], p, from_pos, to_pos, XqMakeMove(xq[r], p, from_pos, to_pos))

\* the king of the side stands where a piece of the other side may move
XqAttacked(board, side) ==
  \E k \in {c \in 0..89 : board[c] = (IF side = "RED" THEN "R_KING" ELSE "B_KING")} :
    \E i \in {c \in 0..89 : board[c] \in (IF side = "RED" THEN BLACK_PIECES ELSE RED_PIECES)} :
      XqIsValidPieceMove(board, i, k)
\* the kings stand on one file with nothing between them
XqOpenFile(board) ==
  \E a \in {c \in 0..89 : board[c] = "R_KING"} :
    \E b \in {c \in 0..89 : board[c] = "B_KING"} :
      /\ a < b /\ a % 9 = b % 9
      /\ \A c \in (a + 1)..(b - 1) : c % 9 = a % 9 => board[c] = "EMPTY"
\* the player moves a piece of its own as the piece moves, in its turn
XqCandidate(g, p, from_pos, to_pos) ==
  /\ ~g.is_finished /\ g.player_black # None
  /\ p = (IF g.current_turn = "RED" THEN g.player_red ELSE g.player_black)
  /\ get_piece_side(g.board[from_pos]) = g.current_turn
  /\ XqIsValidPieceMove(g.board, from_pos, to_pos)

\* C22: after every committed move the king of the player who moved is not
\* attacked by any opposing piece and the kings do not face each other on an
\* open file; a candidate move that would produce either is rejected, and a
\* rejected move leaves the board (and the session) as it was.
XqKeepsKingSafe(g, p, from_pos, to_pos, res) ==
  /\ res.ok => /\ res.g.board = XqMoved(g.board, from_pos, to_pos)
               /\ ~XqAttacked(res.g.board, g.current_turn)
               /\ ~XqOpenFile(res.g.board)
  /\ ~res.ok => res.g = g
  /\ XqCandidate(g, p, from_pos, to_pos)
       /\ (\/ XqAttacked(XqMoved(g.board, from_pos, to_pos), g.current_turn)
           \/ XqOpenFile(XqMoved(g.board, from_pos, to_pos)))
       => ~res.ok /\ res.msg = "self_check"
C22_XqKingSafe ==
  /\ XqMoves(XqKeepsKingSafe)
  /\ \A r \in CalledRooms("xq") :
       xq[r] # NoGame => /\ ~XqAttacked(xq[r].board, XqOpponent(xq[r].current_turn))
                         /\ ~XqOpenFile(xq[r].board)
\* reached: in one session a move is committed, a candidate is rejected for
\* the attack on the mover's king alone and another for the open file alone
XqCommitted(g, p, from_pos, to_pos, res) == res.ok /\ g.move_count % 20 > 0
XqRejectedForAttack(g, p, from_pos, to_pos, res) ==
  /\ XqCandidate(g, p, from_pos, to_pos) /\ res.msg = "self_check" /\ res.g.board = g.board
  /\ XqAttacked(XqMoved(g.board, from_pos, to_pos), g.current_turn)
  /\ ~XqOpenFile(XqMoved(g.board, from_pos, to_pos))
XqRejectedForOpenFile(g, p, from_pos, to_pos, res) ==
  /\ XqCandidate(g, p, from_pos, to_pos) /\ res.msg = "self_check" /\ res.g.board = g.board
  /\ ~XqAttacked(XqMoved(g.board, from_pos, to_pos), g.current_turn)
  /\ XqOpenFile(XqMoved(g.board, from_pos, to_pos))
C22_Witness ==
  /\ SomeXqMove(XqCommitted)
  /\ SomeXqMove(XqRejectedForAttack)
  /\ SomeXqMove(XqRejectedForOpenFile)

\* the side has a move that is legal for its piece and after which its own
\* king is not attacked and the kings do not face
XqSafe(board, side) == ~XqAttacked(board, side) /\ ~XqOpenFile(board)
XqEscapes(board, side) ==
  \E from_pos \in {c \in 0..89 : board[c] \in (IF side = "RED" THEN RED_PIECES ELSE BLACK_PIECES)} :
    \E to_pos \in 0..89 :
      /\ XqIsValidPieceMove(board, from_pos, to_pos)
      /\ XqSafe(XqMoved(board, from_pos, to_pos), side)

\* C23: after a committed move the game is finished with the mover as winner
\* exactly when the opponent has no move, of any piece to any cell, that is
\* legal for the piece and leaves its own king unattacked and the kings not
\* facing; so when the opponent is in check (checkmate) and when it is not
\* (stalemate); in every other case the game continues.
XqEndsWithoutEscape(g, p, from_pos, to_pos, res) ==
  res.ok =>
    IF XqEscapes(res.g.board, XqOpponent(g.current_turn))
      THEN ~res.g.is_finished /\ res.g.winner = None /\ res.msg \in {"check", "moved"}
      ELSE /\ res.g.is_finished /\ res.g.winner = g.current_turn
           /\ res.msg = (IF XqAttacked(res.g.board, XqOpponent(g.current_turn))
                           THEN "checkmate" ELSE "stalemate")
C23_XqNoEscapeEnds == XqMoves(XqEndsWithoutEscape)
\* reached: of one position a move mates, another stalemates and a third
\* gives a check that the king escapes
XqMates(g, p, from_pos, to_pos, res) ==
  /\ res.ok /\ res.g.is_finished /\ res.g.winner = g.current_turn
  /\ XqAttacked(res.g.board, XqOpponent(g.current_turn))
XqStalemates(g, p, from_pos, to_pos, res) ==
  /\ res.ok /\ res.g.is_finished /\ res.g.winner = g.current_turn
  /\ ~XqAttacked(res.g.board, XqOpponent(g.current_turn))
XqChecks(g, p, from_pos, to_pos, res) ==
  /\ res.ok /\ ~res.g.is_finished
  /\ XqAttacked(res.g.board, XqOpponent(g.current_turn))
C23_Witness ==
  /\ SomeXqMove(XqMates) /\ SomeXqMove(XqStalemates) /\ SomeXqMove(XqChecks)
\* reached as states: a session ended by mate and one ended by stalemate
XqSomeMated ==
  \E r \in CalledRooms("xq") :
    /\ xq[r] # NoGame /\ xq[r].is_finished /\ xq[r].in_check
    /\ xq[r].winner = XqOpponent(xq[r].current_turn) /\ xq[r].last_move = <<1, 82>>
XqSomeStalemated ==
  \E r \in CalledRooms("xq") :
    /\ xq[r] # NoGame /\ xq[r].is_finished /\ ~xq[r].in_check
    /\ xq[r].winner = XqOpponent(xq[r].current_turn) /\ xq[r].last_move = <<1, 10>>

\* C24: in every reachable state in_check is true exactly when the king of
\* the side to move is attacked, that is when some opposing piece has a
\* piece-legal move onto the king's cell; it is false in the initial
\* position, and every committed move sets it for the new side to move.
XqFlagsCheck(g, p, from_pos, to_pos, res) ==
  res.ok => /\ res.g.current_turn = XqOpponent(g.current_turn)
            /\ res.g.in_check = XqAttacked(res.g.board, res.g.current_turn)
C24_XqInCheckFlag ==
  /\ \A r \in CalledRooms("xq") :
       xq[r] # NoGame =>
         /\ xq[r].in_check = XqAttacked(xq[r].board, xq[r].current_turn)
         /\ xq[r].board = INITIAL_BOARD /\ xq[r].move_count = 0 => ~xq[r].in_check
  /\ XqMoves(XqFlagsCheck)
  /\ ~XiangqiGame("p1").in_check
\* reached: a session whose side to move is in check after the move before
\* it, with a move that ends the check, and the session of the start
XqEndsCheck(g, p, from_pos, to_pos, res) == res.ok /\ g.in_check /\ ~res.g.in_check
C24_Witness ==
  /\ \E r \in CalledRooms("xq") :
       /\ xq[r] # NoGame /\ xq[r].in_check /\ ~xq[r].is_finished
       /\ XqPlayedOn(xq[r]) > 0
       /\ XqAttacked(xq[r].board, xq[r].current_turn)
  /\ SomeXqMove(XqEndsCheck)
XqSomeStart ==
  \E r \in CalledRooms("xq") :
    xq[r] # NoGame /\ xq[r].board = INITIAL_BOARD /\ xq[r].move_count = 0 /\ ~xq[r].in_check

(***************************************************************************)
(* Xiangqi: the moves of the pieces, over every pair of cells of every     *)
(* board reached.                                                          *)
(***************************************************************************)
XqSteps(P(_, _, _)) ==
  \A r \in CalledRooms("xq") :
    xq[r] # NoGame => \A from_pos \in 0..89, to_pos \in 0..89 : P(xq[r].board, from_pos, to_pos)
SomeXqStep(P(_, _, _)) ==
  \E r \in CalledRooms("xq") :
    xq[r] # NoGame /\ \E from_pos \in 0..89, to_pos \in 0..89 : P(xq[r].board, from_pos, to_pos)
XqOnLine(a, b) == a \div 9 = b \div 9 \/ a % 9 = b % 9
\* the pieces on the cells strictly between two cells of a rank or a file
XqScreens(board, a, b) ==
  Cardinality({c \in 0..89 :
                 /\ board[c] # "EMPTY"
                 /\ \/ c \div 9 = a \div 9 /\ c \div 9 = b \div 9
                       /\ ((a < c /\ c < b) \/ (b < c /\ c < a))
                    \/ c % 9 = a % 9 /\ c % 9 = b % 9
                       /\ ((a < c /\ c < b) \/ (b < c /\ c < a))})
XqFoeOf(piece, other) ==
  \/ piece \in RED_PIECES /\ other \in BLACK_PIECES
  \/ piece \in BLACK_PIECES /\ other \in RED_PIECES

\* C25: a cannon move along a rank or file is piece-legal exactly when the
\* target is empty and no piece stands between origin and target, or the
\* target holds an opposing piece and exactly one piece, of either side,
\* stands between them; a capture over no piece or over two or more is not.
XqCannonRule(board, from_pos, to_pos) ==
  board[from_pos] \in {"R_CANNON", "B_CANNON"} /\ XqOnLine(from_pos, to_pos) =>
    (XqIsValidPieceMove(board, from_pos, to_pos)
       <=> \/ board[to_pos] = "EMPTY" /\ XqScreens(board, from_pos, to_pos) = 0
           \/ XqFoeOf(board[from_pos], board[to_pos]) /\ XqScreens(board, from_pos, to_pos) = 1)
C25_XqCannon == XqSteps(XqCannonRule)
\* reached: one board where a cannon takes over one screen along a file, may
\* not take the piece next to it nor the one behind two screens, and where a
\* cannon takes over a screen of its own side or of the other
XqCannonTakes(board, from_pos, to_pos) ==
  /\ board[from_pos] \in {"R_CANNON", "B_CANNON"} /\ from_pos % 9 = to_pos % 9
  /\ XqFoeOf(board[from_pos], board[to_pos]) /\ XqScreens(board, from_pos, to_pos) = 1
  /\ XqIsValidPieceMove(board, from_pos, to_pos)
XqCannonTooNear(board, from_pos, to_pos) ==
  /\ board[from_pos] \in {"R_CANNON", "B_CANNON"} /\ XqOnLine(from_pos, to_pos)
  /\ XqFoeOf(board[from_pos], board[to_pos]) /\ XqScreens(board, from_pos, to_pos) = 0
  /\ ~XqIsValidPieceMove(board, from_pos, to_pos)
XqCannonTooFar(board, from_pos, to_pos) ==
  /\ board[from_pos] \in {"R_CANNON", "B_CANNON"} /\ XqOnLine(from_pos, to_pos)
  /\ XqFoeOf(board[from_pos], board[to_pos]) /\ XqScreens(board, from_pos, to_pos) = 2
  /\ ~XqIsValidPieceMove(board, from_pos, to_pos)
XqCannonBlocked(board, from_pos, to_pos) ==
  /\ board[from_pos] \in {"R_CANNON", "B_CANNON"} /\ XqOnLine(from_pos, to_pos)
  /\ board[to_pos] = "EMPTY" /\ XqScreens(board, from_pos, to_pos) = 1
  /\ ~XqIsValidPieceMove(board, from_pos, to_pos)
C25_Witness ==
  /\ SomeXqStep(XqCannonTakes) /\ SomeXqStep(XqCannonTooNear)
  /\ SomeXqStep(XqCannonTooFar) /\ SomeXqStep(XqCannonBlocked)
  /\ \E r \in CalledRooms("xq") : xq[r] # NoGame /\ xq[r].move_count % 20 > 0

XqSign(v) == IF v > 0 THEN 1 ELSE IF v < 0 THEN -1 ELSE 0
XqRowStep(from_pos, to_pos) == (to_pos \div 9) - (from_pos \div 9)
XqColStep(from_pos, to_pos) == (to_pos % 9) - (from_pos % 9)
\* an L step of the horse, and the cell next to the origin along its long axis
XqIsL(from_pos, to_pos) ==
  \/ Abs(XqRowStep(from_pos, to_pos)) = 2 /\ Abs(XqColStep(from_pos, to_pos)) = 1
  \/ Abs(XqRowStep(from_pos, to_pos)) = 1 /\ Abs(XqColStep(from_pos, to_pos)) = 2
XqLeg(from_pos, to_pos) ==
  IF Abs(XqRowStep(from_pos, to_pos)) = 2
    THEN from_pos + 9 * XqSign(XqRowStep(from_pos, to_pos))
    ELSE from_pos + XqSign(XqColStep(from_pos, to_pos))
\* a step of two cells along a diagonal, and the half of the board of a piece
XqIsField(from_pos, to_pos) ==
  Abs(XqRowStep(from_pos, to_pos)) = 2 /\ Abs(XqColStep(from_pos, to_pos)) = 2
XqOwnHalf(piece, pos) == IF piece \in RED_PIECES THEN pos < 45 ELSE pos >= 45
XqHorsePattern(board, from_pos, to_pos) ==
  XqIsL(from_pos, to_pos) /\ board[XqLeg(from_pos, to_pos)] = "EMPTY"
XqElephantPattern(board, from_pos, to_pos) ==
  /\ XqIsField(from_pos, to_pos)
  /\ board[(from_pos + to_pos) \div 2] = "EMPTY"
  /\ XqOwnHalf(board[from_pos], to_pos)

\* C26 as stated: a horse move is piece-legal exactly when it is a (2,1) or
\* (1,2) step and the cell next to the origin along the two-step axis is
\* empty; an elephant move exactly when it is a (2,2) diagonal step with an
\* empty midpoint and its destination on the elephant's own side of the river.
XqHorseElephantAsStated(board, from_pos, to_pos) ==
  /\ board[from_pos] \in {"R_HORSE", "B_HORSE"} =>
       (XqIsValidPieceMove(board, from_pos, to_pos) <=> XqHorsePattern(board, from_pos, to_pos))
  /\ board[from_pos] \in {"R_ELEPHANT", "B_ELEPHANT"} =>
       (XqIsValidPieceMove(board, from_pos, to_pos) <=> XqElephantPattern(board, from_pos, to_pos))
C26_XqHorseElephantAsStated == XqSteps(XqHorseElephantAsStated)
\* C26 amended: a horse or elephant move is piece-legal exactly when the
\* destination holds no piece of its own side and the move is, for the horse,
\* a (2,1) or (1,2) step with the cell next to the origin along the two-step
\* axis empty, and for the elephant a (2,2) diagonal step with an empty
\* midpoint and the destination on its own side of the river.
XqHorseElephantRule(board, from_pos, to_pos) ==
  /\ board[from_pos] \in {"R_HORSE", "B_HORSE"} =>
       (XqIsValidPieceMove(board, from_pos, to_pos)
          <=> /\ get_piece_side(board[to_pos]) # get_piece_side(board[from_pos])
              /\ XqHorsePattern(board, from_pos, to_pos))
  /\ board[from_pos] \in {"R_ELEPHANT", "B_ELEPHANT"} =>
       (XqIsValidPieceMove(board, from_pos, to_pos)
          <=> /\ get_piece_side(board[to_pos]) # get_piece_side(board[from_pos])
              /\ XqElephantPattern(board, from_pos, to_pos))
C26_XqHorseElephant == XqSteps(XqHorseElephantRule)
\* reached, on one board: a horse that jumps, one whose leg is held, one
\* whose jump ends on a piece of its own side; an elephant that steps, one
\* whose midpoint is held and one whose step would cross the river
XqHorseJumps(board, from_pos, to_pos) ==
  /\ board[from_pos] \in {"R_HORSE", "B_HORSE"} /\ XqHorsePattern(board, from_pos, to_pos)
  /\ XqIsValidPieceMove(board, from_pos, to_pos)
XqHorseHobbled(board, from_pos, to_pos) ==
  /\ board[from_pos] \in {"R_HORSE", "B_HORSE"} /\ XqIsL(from_pos, to_pos)
  /\ board[XqLeg(from_pos, to_pos)] # "EMPTY" /\ board[to_pos] = "EMPTY"
  /\ ~XqIsValidPieceMove(board, from_pos, to_pos)
XqHorseOntoOwn(board, from_pos, to_pos) ==
  /\ board[from_pos] \in {"R_HORSE", "B_HORSE"} /\ XqHorsePattern(board, from_pos, to_pos)
  /\ get_piece_side(board[to_pos]) = get_piece_side(board[from_pos])
  /\ ~XqIsValidPieceMove(board, from_pos, to_pos)
XqElephantSteps(board, from_pos, to_pos) ==
  /\ board[from_pos] \in {"R_ELEPHANT", "B_ELEPHANT"} /\ XqElephantPattern(board, from_pos, to_pos)
  /\ XqIsValidPieceMove(board, from_pos, to_pos)
XqElephantHeld(board, from_pos, to_pos) ==
  /\ board[from_pos] \in {"R_ELEPHANT", "B_ELEPHANT"} /\ XqIsField(from_pos, to_pos)
  /\ board[(from_pos + to_pos) \div 2] # "EMPTY" /\ board[to_pos] = "EMPTY"
  /\ XqOwnHalf(board[from_pos], to_pos)
  /\ ~XqIsValidPieceMove(board, from_pos, to_pos)
XqElephantAtRiver(board, from_pos, to_pos) ==
  /\ board[from_pos] \in {"R_ELEPHANT", "B_ELEPHANT"} /\ XqIsField(from_pos, to_pos)
  /\ board[(from_pos + to_pos) \div 2] = "EMPTY" /\ board[to_pos] = "EMPTY"
  /\ ~XqOwnHalf(board[from_pos], to_pos)
  /\ ~XqIsValidPieceMove(board, from_pos, to_pos)
XqElephantOntoOwn(board, from_pos, to_pos) ==
  /\ board[from_pos] \in {"R_ELEPHANT", "B_ELEPHANT"} /\ XqElephantPattern(board, from_pos, to_pos)
  /\ get_piece_side(board[to_pos]) = get_piece_side(board[from_pos])
  /\ ~XqIsValidPieceMove(board, from_pos, to_pos)
C26_Witness ==
  /\ SomeXqStep(XqHorseJumps) /\ SomeXqStep(XqHorseHobbled) /\ SomeXqStep(XqHorseOntoOwn)
  /\ SomeXqStep(XqElephantSteps) /\ SomeXqStep(XqElephantHeld)
  /\ SomeXqStep(XqElephantAtRiver)
XqSomeElephantOntoOwn == SomeXqStep(XqElephantOntoOwn)

\* forward is up the rows for red and down the rows for black; the rank of a
\* soldier is its distance from the back rank of its side
XqForward(piece) == IF piece \in RED_PIECES THEN 1 ELSE -1
XqRank(piece, pos) == IF piece \in RED_PIECES THEN pos \div 9 ELSE 9 - (pos \div 9)
XqStepsForward(board, from_pos, to_pos) ==
  XqRowStep(from_pos, to_pos) = XqForward(board[from_pos]) /\ XqColStep(from_pos, to_pos) = 0
XqStepsSideways(board, from_pos, to_pos) ==
  XqRowStep(from_pos, to_pos) = 0 /\ Abs(XqColStep(from_pos, to_pos)) = 1
XqSoldierPattern(board, from_pos, to_pos) ==
  \/ XqStepsForward(board, from_pos, to_pos)
  \/ ~XqOwnHalf(board[from_pos], from_pos) /\ XqStepsSideways(board, from_pos, to_pos)

\* C27: a soldier never moves backward: before it has crossed the river its
\* only piece-legal move is one step toward the enemy side, after crossing
\* it may step one cell forward or one cell sideways (forward is increasing
\* row for red, decreasing row for black); so the distance of a soldier from
\* its own back rank never decreases: not by a piece-legal move, and not by
\* the last committed move of any session.
XqSoldierRule(board, from_pos, to_pos) ==
  board[from_pos] \in {"R_SOLDIER", "B_SOLDIER"} =>
    /\ XqIsValidPieceMove(board, from_pos, to_pos) => XqSoldierPattern(board, from_pos, to_pos)
    /\ XqSoldierPattern(board, from_pos, to_pos)
         /\ get_piece_side(board[to_pos]) # get_piece_side(board[from_pos])
         => XqIsValidPieceMove(board, from_pos, to_pos)
    /\ XqIsValidPieceMove(board, from_pos, to_pos)
         => XqRank(board[from_pos], to_pos) >= XqRank(board[from_pos], from_pos)
C27_XqSoldier ==
  /\ XqSteps(XqSoldierRule)
  /\ \A r \in CalledRooms("xq") :
       xq[r] # NoGame /\ xq[r].last_move # <<>>
         /\ xq[r].board[xq[r].last_move[2]] \in {"R_SOLDIER", "B_SOLDIER"}
         => XqRank(xq[r].board[xq[r].last_move[2]], xq[r].last_move[2])
              >= XqRank(xq[r].board[xq[r].last_move[2]], xq[r].last_move[1])
\* reached: after a soldier's move in the session, a board where a soldier
\* of each side across the river may step sideways and not back, and a
\* soldier short of the river may only step forward
XqSoldierSidesteps(board, from_pos, to_pos) ==
  /\ board[from_pos] \in {"R_SOLDIER", "B_SOLDIER"} /\ XqStepsSideways(board, from_pos, to_pos)
  /\ XqIsValidPieceMove(board, from_pos, to_pos)
XqSoldierHeldToFile(board, from_pos, to_pos) ==
  /\ board[from_pos] \in {"R_SOLDIER", "B_SOLDIER"} /\ XqStepsSideways(board, from_pos, to_pos)
  /\ board[to_pos] = "EMPTY" /\ ~XqIsValidPieceMove(board, from_pos, to_pos)
XqSoldierNotBack(board, from_pos, to_pos) ==
  /\ board[from_pos] \in {"R_SOLDIER", "B_SOLDIER"} /\ ~XqOwnHalf(board[from_pos], from_pos)
  /\ XqRowStep(from_pos, to_pos) = -XqForward(board[from_pos]) /\ XqColStep(from_pos, to_pos) = 0
  /\ board[to_pos] = "EMPTY" /\ ~XqIsValidPieceMove(board, from_pos, to_pos)
XqRedSidesteps(board, from_pos, to_pos) ==
  board[from_pos] = "R_SOLDIER" /\ XqSoldierSidesteps(board, from_pos, to_pos)
XqBlackSidesteps(board, from_pos, to_pos) ==
  board[from_pos] = "B_SOLDIER" /\ XqSoldierSidesteps(board, from_pos, to_pos)
C27_Witness ==
  /\ SomeXqStep(XqRedSidesteps) /\ SomeXqStep(XqBlackSidesteps)
  /\ SomeXqStep(XqSoldierHeldToFile) /\ SomeXqStep(XqSoldierNotBack)
  /\ \E r \in CalledRooms("xq") :
       /\ xq[r] # NoGame /\ XqPlayedOn(xq[r]) > 0
       /\ xq[r].board[xq[r].last_move[2]] \in {"R_SOLDIER", "B_SOLDIER"}
       /\ XqColStep(xq[r].last_move[1], xq[r].last_move[2]) # 0

(***************************************************************************)
(* Junqi: the rules as the claims state them, over every flip of every     *)
(* cell and every move from every cell to every cell by the player to move *)
(* in the sessions reached; a caller who is not to move, or any caller of  *)
(* a session that is finished or not joined, is answered before the cells  *)
(* are read and tries the cells of the first row's start and the board's   *)
(* ends.                                                                   *)
(***************************************************************************)
JqCells == 0..59
JqTried(g, p, all) ==
  IF g.is_finished \/ g.player_b = None
     \/ p # (IF g.current_turn = 1 THEN g.player_a ELSE g.player_b)
    THEN {0, 1, 59} ELSE all
JqFlips(P(_, _, _, _)) ==
  \A r \in CalledRooms("jq") :
    jq[r] # NoGame =>
      \A p \in Players : \A pos \in JqTried(jq[r], p, JqCells) :
        P(jq[r], p, pos, JqFlip(jq[r], p, pos))
JqMoves(P(_, _, _, _, _)) ==
  \A r \in CalledRooms("jq") :
    jq[r] # NoGame =>
      \A p \in Players :
        \A from_pos \in JqTried(jq[r], p, JqCells), to_pos \in JqTried(jq[r], p, JqCells) :
          P(jq[r], p, from_pos, to_pos, JqMove(jq[r], p, from_pos, to_pos))
SomeJqFlip(P(_, _, _, _)) ==
  \E r \in CalledRooms("jq") :
    /\ jq[r] # NoGame
    /\ \E p \in Players : \E pos \in JqTried(jq[r], p, JqCells) :
         P(jq[r], p, pos, JqFlip(jq[r], p, pos))
SomeJqMove(P(_, _, _, _, _)) ==
  \E r \in CalledRooms("jq") :
    /\ jq[r] # NoGame
    /\ \E p \in Players :
         \E from_pos \in JqTried(jq[r], p, JqCells), to_pos \in JqTried(jq[r], p, JqCells) :
           P(jq[r], p, from_pos, to_pos, JqMove(jq[r], p, from_pos, to_pos))
JqOtherSide(side) == IF side = "RED" THEN "BLUE" ELSE "RED"
JqOtherPlayer(g, p) == IF p = g.player_a THEN g.player_b ELSE g.player_a
\* no flip has succeeded yet: nothing was played in the session
JqUnflipped(g) == g.move_count = 0
JqSameSides(g, h) ==
  /\ get_player_side(h, g.player_a) = get_player_side(g, g.player_a)
  /\ get_player_side(h, g.player_b) = get_player_side(g, g.player_b)
  /\ h.player_a = g.player_a /\ h.player_b = g.player_b

\* C28: no move succeeds before the first successful flip; the first
\* successful flip gives the flipping player the side of the piece it
\* reveals and the other player the opposite side; from then on the side
\* of neither player changes: not by a flip, a move or a surrender.
JqFirstFlipSides(g, p, pos, res) ==
  /\ res.ok /\ JqUnflipped(g) =>
       /\ get_player_side(res.g, p) = g.board[pos].side
       /\ get_player_side(res.g, JqOtherPlayer(g, p)) = JqOtherSide(g.board[pos].side)
  /\ ~JqUnflipped(g) => JqSameSides(g, res.g)
JqMoveKeepsSides(g, p, from_pos, to_pos, res) ==
  /\ JqUnflipped(g) => ~res.ok
  /\ ~JqUnflipped(g) => JqSameSides(g, res.g)
C28_JqSides ==
  /\ JqFlips(JqFirstFlipSides)
  /\ JqMoves(JqMoveKeepsSides)
  /\ \A r \in CalledRooms("jq") :
       jq[r] # NoGame =>
         /\ \A p \in Players : JqSameSides(jq[r], JqSurrender(jq[r], p).g)
         /\ JqUnflipped(jq[r]) => /\ get_player_side(jq[r], jq[r].player_a) = None
                                   /\ get_player_side(jq[r], jq[r].player_b) = None
         /\ ~JqUnflipped(jq[r]) =>
              /\ get_player_side(jq[r], jq[r].player_a) \in {"RED", "BLUE"}
              /\ get_player_side(jq[r], jq[r].player_b)
                   = JqOtherSide(get_player_side(jq[r], jq[r].player_a))
\* reached: a session where the first player revealed a piece of one
\* side, took it, the second player revealed a piece of the same side, and
\* a move succeeded; a first flip; a later flip that reveals a piece of the
\* other side than its flipper's
JqFirstFlip(g, p, pos, res) == res.ok /\ JqUnflipped(g)
JqFlipsOtherSide(g, p, pos, res) ==
  res.ok /\ ~JqUnflipped(g) /\ g.board[pos].side # get_player_side(g, p)
JqMoveSucceeds(g, p, from_pos, to_pos, res) == res.ok
C28_Witness ==
  /\ SomeJqFlip(JqFlipsOtherSide) /\ SomeJqMove(JqMoveSucceeds)
  /\ \E r \in CalledRooms("jq") :
       /\ jq[r] # NoGame /\ jq[r].move_count >= 3
       /\ \E pos \in JqCells :
            /\ jq[r].board[pos] # NoPiece /\ jq[r].board[pos].revealed
            /\ jq[r].board[pos].side # get_player_side(jq[r], jq[r].player_b)
            /\ jq[r].last_pos = pos
            /\ jq[r].current_turn = 1
JqSomeFirstFlip == SomeJqFlip(JqFirstFlip)

\* two cells of the 6x10 board that are next to each other in a row or in a
\* column
JqNextTo(a, b) ==
  /\ a \in JqCells /\ b \in JqCells
  /\ \/ a \div 6 = b \div 6 /\ Abs((a % 6) - (b % 6)) = 1
     \/ a % 6 = b % 6 /\ Abs((a \div 6) - (b \div 6)) = 1
JqInPlay(g, p) ==
  ~g.is_finished /\ g.player_b # None /\ p = (IF g.current_turn = 1 THEN g.player_a ELSE g.player_b)
JqMayMove(g, p, from_pos, to_pos) ==
  /\ get_player_side(g, p) \in {"RED", "BLUE"}
  /\ from_pos \in JqCells /\ to_pos \in JqCells
  /\ g.board[from_pos] # NoPiece
  /\ g.board[from_pos].revealed
  /\ g.board[from_pos].side = get_player_side(g, p)
  /\ g.board[from_pos].piece_type \notin {"FLAG", "MINE"}
  /\ JqNextTo(from_pos, to_pos)
  /\ \/ g.board[to_pos] = NoPiece
     \/ g.board[to_pos].revealed /\ g.board[to_pos].side # get_player_side(g, p)

\* C29 (over the positions from -1 to 60, one beyond the board at either
\* end): a move(from,to) by the player to move succeeds exactly when the
\* sides are determined, from holds a revealed piece of the mover's side
\* that is neither flag nor mine, to is the cell above, below, left or right
\* of from on the 6x10 board (the end of a row is not next to the start of
\* the next), and to is empty or holds a revealed piece of the other side;
\* a move that fails, as one onto a face-down piece or onto an own piece,
\* changes nothing.
JqMoveRule(g, p, from_pos, to_pos, res) ==
  /\ JqInPlay(g, p) => (res.ok <=> JqMayMove(g, p, from_pos, to_pos))
  /\ ~JqInPlay(g, p) => ~res.ok
  /\ ~res.ok => res.g = g
C29_JqMove ==
  \A r \in CalledRooms("jq") :
    jq[r] # NoGame =>
      \A p \in Players :
        \A from_pos \in JqTried(jq[r], p, (-1)..60), to_pos \in JqTried(jq[r], p, (-1)..60) :
          JqMoveRule(jq[r], p, from_pos, to_pos, JqMove(jq[r], p, from_pos, to_pos))
\* reached in one session: a move onto an empty cell, an attack on a
\* revealed piece of the other side, a refused move onto a face-down piece,
\* a refused move from the start of a row to the empty end of the row above
JqToEmpty(g, p, from_pos, to_pos, res) == res.ok /\ g.board[to_pos] = NoPiece
JqAttacks(g, p, from_pos, to_pos, res) == res.ok /\ g.board[to_pos] # NoPiece
JqOntoHidden(g, p, from_pos, to_pos, res) ==
  /\ ~res.ok /\ res.g = g /\ JqInPlay(g, p) /\ JqNextTo(from_pos, to_pos)
  /\ g.board[from_pos] # NoPiece /\ g.board[from_pos].revealed
  /\ g.board[from_pos].side = get_player_side(g, p)
  /\ g.board[from_pos].piece_type \notin {"FLAG", "MINE"}
  /\ g.board[to_pos] # NoPiece /\ ~g.board[to_pos].revealed
JqOntoOwn(g, p, from_pos, to_pos, res) ==
  /\ ~res.ok /\ res.g = g /\ JqInPlay(g, p) /\ JqNextTo(from_pos, to_pos)
  /\ g.board[from_pos] # NoPiece /\ g.board[from_pos].revealed
  /\ g.board[from_pos].side = get_player_side(g, p)
  /\ g.board[from_pos].piece_type \notin {"FLAG", "MINE"}
  /\ g.board[to_pos] # NoPiece /\ g.board[to_pos].revealed
  /\ g.board[to_pos].side = get_player_side(g, p)
JqAroundTheRow(g, p, from_pos, to_pos, res) ==
  /\ ~res.ok /\ JqInPlay(g, p) /\ from_pos % 6 = 0 /\ to_pos = from_pos - 1
  /\ g.board[from_pos] # NoPiece /\ g.board[from_pos].revealed
  /\ g.board[from_pos].side = get_player_side(g, p)
  /\ g.board[from_pos].piece_type \notin {"FLAG", "MINE"}
  /\ g.board[to_pos] = NoPiece
JqImmobile(g, p, from_pos, to_pos, res) ==
  /\ ~res.ok /\ JqInPlay(g, p) /\ JqNextTo(from_pos, to_pos)
  /\ g.board[from_pos] # NoPiece /\ g.board[from_pos].revealed
  /\ g.board[from_pos].side = get_player_side(g, p)
  /\ g.board[from_pos].piece_type \in {"FLAG", "MINE"}
C29_Witness ==
  /\ SomeJqMove(JqToEmpty) /\ SomeJqMove(JqAttacks) /\ SomeJqMove(JqOntoHidden)
  /\ SomeJqMove(JqAroundTheRow)
  /\ \E r \in CalledRooms("jq") : jq[r] # NoGame /\ jq[r].move_count >= 2
JqSomeOntoOwn == SomeJqMove(JqOntoOwn)
JqSomeImmobile == SomeJqMove(JqImmobile)

\* the ranks from the lowest to the highest, and the outcome of an attack
\* for the attacker
JqLadder ==
  <<"ENGINEER", "PLATOON", "COMPANY", "BATTALION", "REGIMENT", "BRIGADE", "DIVISION",
    "GENERAL", "COMMANDER">>
JqRung(t) == CHOOSE i \in 1..Len(JqLadder) : JqLadder[i] = t
JqOutcome(a, d) ==
  CASE a = "BOMB" \/ d = "BOMB" -> "draw"
    [] a # "BOMB" /\ d = "MINE" -> IF a = "ENGINEER" THEN "win" ELSE "draw"
    [] a # "BOMB" /\ d = "FLAG" -> "win"
    [] OTHER -> IF JqRung(a) > JqRung(d) THEN "win"
                ELSE IF JqRung(a) < JqRung(d) THEN "lose" ELSE "draw"
JqMovable == PieceTypes \ {"FLAG", "MINE"}

\* C30: a battle removes both pieces if either is a bomb; otherwise against
\* a mine an engineer wins and any other attacker is removed with the mine;
\* otherwise an attacked flag is captured; otherwise the higher rank wins
\* and equal ranks remove both.  When the attacker wins it stands on the
\* target cell and the origin is empty; when it loses only the attacker is
\* removed; on mutual destruction both cells are empty.
JqBattleRule(g, p, from_pos, to_pos, res) ==
  res.ok /\ g.board[to_pos] # NoPiece =>
    res.g.board =
      [g.board EXCEPT
         ![from_pos] = NoPiece,
         ![to_pos] = CASE JqOutcome(g.board[from_pos].piece_type, g.board[to_pos].piece_type) = "win"
                            -> g.board[from_pos]
                       [] JqOutcome(g.board[from_pos].piece_type, g.board[to_pos].piece_type) = "lose"
                            -> g.board[to_pos]
                       [] OTHER -> NoPiece]
C30_JqBattle ==
  /\ \A a \in JqMovable, d \in PieceTypes, sd \in {"RED", "BLUE"} :
       JqBattle(Piece(a, sd), Piece(d, JqOtherSide(sd))) = JqOutcome(a, d)
  /\ JqMoves(JqBattleRule)
\* reached in one session: an engineer that takes a mine, a platoon that is
\* removed with the mine and a platoon removed with a platoon; elsewhere a
\* lost attack, a won attack by rank, a bomb and a captured flag
JqTakes(g, p, from_pos, to_pos, res) ==
  /\ res.ok /\ g.board[to_pos] # NoPiece
  /\ res.g.board[to_pos] = g.board[from_pos] /\ res.g.board[from_pos] = NoPiece
JqTakesMine(g, p, from_pos, to_pos, res) ==
  JqTakes(g, p, from_pos, to_pos, res) /\ g.board[to_pos].piece_type = "MINE"
JqBothRemoved(g, p, from_pos, to_pos, res) ==
  /\ res.ok /\ g.board[to_pos] # NoPiece
  /\ res.g.board[to_pos] = NoPiece /\ res.g.board[from_pos] = NoPiece
JqBlownByMine(g, p, from_pos, to_pos, res) ==
  JqBothRemoved(g, p, from_pos, to_pos, res) /\ g.board[to_pos].piece_type = "MINE"
JqEqualRanks(g, p, from_pos, to_pos, res) ==
  /\ JqBothRemoved(g, p, from_pos, to_pos, res)
  /\ g.board[to_pos].piece_type = g.board[from_pos].piece_type
  /\ g.board[to_pos].piece_type # "BOMB"
JqLoses(g, p, from_pos, to_pos, res) ==
  /\ res.ok /\ g.board[to_pos] # NoPiece
  /\ res.g.board[to_pos] = g.board[to_pos] /\ res.g.board[from_pos] = NoPiece
JqTakesByRank(g, p, from_pos, to_pos, res) ==
  JqTakes(g, p, from_pos, to_pos, res) /\ g.board[to_pos].piece_type \notin {"MINE", "FLAG"}
JqBombed(g, p, from_pos, to_pos, res) ==
  JqBothRemoved(g, p, from_pos, to_pos, res) /\ g.board[to_pos].piece_type = "BOMB"
JqTakesFlag(g, p, from_pos, to_pos, res) ==
  JqTakes(g, p, from_pos, to_pos, res) /\ g.board[to_pos].piece_type = "FLAG"
C30_Witness ==
  /\ SomeJqMove(JqTakesMine) /\ SomeJqMove(JqBlownByMine) /\ SomeJqMove(JqEqualRanks)
  /\ \E r \in CalledRooms("jq") : jq[r] # NoGame /\ jq[r].move_count >= 4
JqSomeLoses == SomeJqMove(JqLoses)
JqSomeTakesByRank == SomeJqMove(JqTakesByRank)
JqSomeBombed == SomeJqMove(JqBombed)
JqSomeTakesFlag == SomeJqMove(JqTakesFlag)
\* reached as states: sessions after each kind of outcome
JqSomeFought ==
  \E r \in CalledRooms("jq") :
    /\ jq[r] # NoGame /\ jq[r].move_count >= 3
    /\ jq[r].board[0] # NoPiece /\ jq[r].board[0].piece_type = "ENGINEER"
    /\ jq[r].board[6] = NoPiece

\* the flag of the side stands on the board
JqFlagStands(board, side) ==
  \E pos \in JqCells :
    board[pos] # NoPiece /\ board[pos].piece_type = "FLAG" /\ board[pos].side = side

\* C31: whenever a move removes a flag, also by the mutual destruction of a
\* bomb, the game is finished by that move and the winner is the moving
\* player, whose side is opposite to the side of the flag; afterwards no
\* flip and no move succeeds.  In every state a flag that is off the board
\* has ended the game for the player of the other side.
JqFlagEnds(g, p, from_pos, to_pos, res) ==
  res.ok /\ g.board[to_pos] # NoPiece /\ g.board[to_pos].piece_type = "FLAG" =>
    /\ ~JqFlagStands(res.g.board, g.board[to_pos].side)
    /\ res.g.is_finished
    /\ res.g.winner = p
    /\ get_player_side(g, p) = JqOtherSide(g.board[to_pos].side)
    /\ \A q \in Players, a \in JqCells :
         /\ ~JqFlip(res.g, q, a).ok
         /\ \A b \in JqNeighbors(a) : ~JqMove(res.g, q, a, b).ok
JqOnlyFlagsLeave(g, p, from_pos, to_pos, res) ==
  res.ok =>
    \A side \in {"RED", "BLUE"} :
      JqFlagStands(g.board, side) /\ ~JqFlagStands(res.g.board, side)
        => g.board[to_pos] # NoPiece /\ g.board[to_pos].piece_type = "FLAG"
           /\ g.board[to_pos].side = side
C31_JqFlagEnds ==
  /\ JqMoves(JqFlagEnds)
  /\ JqMoves(JqOnlyFlagsLeave)
  /\ \A r \in CalledRooms("jq") :
       jq[r] # NoGame =>
         /\ \A side \in {"RED", "BLUE"} :
              ~JqFlagStands(jq[r].board, side) =>
                /\ jq[r].is_finished
                /\ get_player_side(jq[r], jq[r].winner) = JqOtherSide(side)
         /\ jq[r].is_finished =>
              \A q \in Players, a \in JqCells :
                /\ ~JqFlip(jq[r], q, a).ok
                /\ \A b \in JqCells : ~JqMove(jq[r], q, a, b).ok
\* reached: a session ended by a bomb that went with the flag, and one
\* ended by a piece that stands where the flag stood
JqBombedFlag(g, p, from_pos, to_pos, res) ==
  /\ res.ok /\ g.board[to_pos] # NoPiece /\ g.board[to_pos].piece_type = "FLAG"
  /\ g.board[from_pos].piece_type = "BOMB" /\ res.g.board[to_pos] = NoPiece
C31_Witness ==
  /\ SomeJqMove(JqBombedFlag) /\ SomeJqMove(JqTakesFlag)
  /\ \E r \in CalledRooms("jq") : jq[r] # NoGame /\ jq[r].move_count >= 2
JqSomeFlagBombed ==
  \E r \in CalledRooms("jq") :
    /\ jq[r] # NoGame /\ jq[r].is_finished /\ jq[r].winner = "p1"
    /\ ~JqFlagStands(jq[r].board, "BLUE") /\ jq[r].board[0] = NoPiece
JqSomeFlagTaken ==
  \E r \in CalledRooms("jq") :
    /\ jq[r] # NoGame /\ jq[r].is_finished
    /\ \E side \in {"RED", "BLUE"} : ~JqFlagStands(jq[r].board, side)
    /\ jq[r].board[0] # NoPiece

(***************************************************************************)
(* Coordinate texts                                                        *)
(***************************************************************************)
\* the value of a coordinate parser: None or a cell of the board
IsCellOrNone(xy, ncols, nrows) ==
  xy = <<>> \/ (Len(xy) = 2 /\ xy[1] \in 0..(ncols - 1) /\ xy[2] \in 0..(nrows - 1))
\* the value of parse_move: None or two cells
IsMoveOrNone(move) ==
  move = <<>> \/ (Len(move) = 2 /\ move[1] \in 0..89 /\ move[2] \in 0..89)

\* C32: for every text every parser returns a cell, or a move, or the value
\* of a failed parse; no text, and no text one character too short, makes
\* a parser raise, and no call of a manager with a text raises.
XqReturns(k, op, old, r, p, res) == res.game # "raise"
C32_ParsersNeverRaise ==
  /\ \A r \in CalledRooms("gmk") : gmk[r] # NoGame =>
       \A c \in GmkTexts :
         IsCellOrNone(GmkParseCoordinate(gmk[r], c), gmk[r].board_size, gmk[r].board_size)
  /\ \A r \in CalledRooms("go") : go[r] # NoGame =>
       \A c \in GoTexts :
         IsCellOrNone(GoParseCoordinate(go[r], c), go[r].board_size, go[r].board_size)
  /\ \A c \in JqTexts : JqParseCoordinate(c) \in -1..59
  /\ \A r \in CalledRooms("xq") : xq[r] # NoGame =>
       \A c \in XqTexts : IsMoveOrNone(XqParseMove(xq[r], c))
  /\ AllCalls(XqReturns)
\* the parsers other than that of the traditional notation
C32_OtherParsers ==
  /\ \A r \in CalledRooms("gmk") : gmk[r] # NoGame =>
       \A c \in GmkTexts :
         IsCellOrNone(GmkParseCoordinate(gmk[r], c), gmk[r].board_size, gmk[r].board_size)
  /\ \A r \in CalledRooms("go") : go[r] # NoGame =>
       \A c \in GoTexts :
         IsCellOrNone(GoParseCoordinate(go[r], c), go[r].board_size, go[r].board_size)
  /\ \A c \in JqTexts : JqParseCoordinate(c) \in -1..59
  /\ \A r \in CalledRooms("xq") : xq[r] # NoGame =>
       \A c \in XqTexts :
         /\ IsMoveOrNone(XqParseCoordinateMove(StrRemove(StrStrip(c), " ")))
         /\ XqParseMove(xq[r], c) = <<"IndexError">> =>
              /\ Len(c) = 4 /\ CHINESE_POSITION(c[1]) # None
              /\ CHINESE_ACTIONS(c[4]) # None
  /\ TttCalls(XqReturns) /\ GmkCalls(XqReturns) /\ GoCalls(XqReturns) /\ JqCalls(XqReturns)

\* get_coordinate_label of each game; <<>> where it raises IndexError
GmkGetCoordinateLabel(g, pos) ==
  CoordinateLabel(GMK_COLUMN_LABELS, pos % g.board_size, pos \div g.board_size)
GoGetCoordinateLabel(g, pos) ==
  CoordinateLabel(GO_COLUMN_LABELS, pos % g.board_size, pos \div g.board_size)
XqGetCoordinateLabel(pos) == CoordinateLabel(XQ_COLUMN_LABELS, pos % 9, pos \div 9)
JqGetCoordinateLabel(pos) == CoordinateLabel(JQ_COLUMN_LABELS, pos % JQ_COLS, pos \div JQ_COLS)

\* the text of file letter c and rank y
FileRank(c, y) == <<c>> \o NatStr(y)
\* an alphabet skips I: H is its eighth letter and J its ninth
SkipsI(labels) ==
  IndexOf(labels, "I") = 0 /\ IndexOf(labels, "H") = 8 /\ IndexOf(labels, "J") = 9
\* in gomoku and in go no rank of file I is a cell, in either case of the
\* letter, J names the ninth file and H the eighth, and a placement on file I
\* is refused as a text that names no cell
GmkSkipsI(g, reg, r) ==
  /\ SkipsI(GMK_COLUMN_LABELS)
  /\ \A y \in 1..g.board_size :
       /\ GmkParseCoordinate(g, FileRank("I", y)) = <<>>
       /\ GmkParseCoordinate(g, FileRank("i", y)) = <<>>
       /\ GmkParseCoordinate(g, FileRank("H", y)) = <<7, y - 1>>
       /\ GmkParseCoordinate(g, FileRank("J", y)) = <<8, y - 1>>
       /\ GmkGetCoordinateLabel(g, (y - 1) * g.board_size + 8) = FileRank("J", y)
       /\ \A p \in Players :
            LET res == GmkMgrMakeMove(reg, r, p, FileRank("I", y))
            IN ~res.ok /\ res.msg = "bad_coordinate" /\ res.reg = reg
GoSkipsI(g, reg, r) ==
  /\ SkipsI(GO_COLUMN_LABELS)
  /\ \A y \in 1..g.board_size :
       /\ GoParseCoordinate(g, FileRank("I", y)) = <<>>
       /\ GoParseCoordinate(g, FileRank("i", y)) = <<>>
       /\ GoParseCoordinate(g, FileRank("H", y)) = <<7, y - 1>>
       /\ GoParseCoordinate(g, FileRank("J", y)) = <<8, y - 1>>
       /\ GoGetCoordinateLabel(g, (y - 1) * g.board_size + 8) = FileRank("J", y)
       /\ \A p \in Players :
            LET res == GoMgrMakeMove(reg, r, p, FileRank("I", y))
            IN ~res.ok /\ res.msg = "bad_coordinate" /\ res.reg = reg
\* xiangqi as the claim has it
XqSkipsI ==
  /\ SkipsI(XQ_COLUMN_LABELS)
  /\ \A y \in 1..10 :
       XqParseCoordinate(FileRank("I", y)) = <<>> /\ XqParseCoordinate(FileRank("i", y)) = <<>>
\* xiangqi as it is: the nine files are A to I, I is the ninth, and J names
\* no file
XqKeepsI(g) ==
  /\ XQ_COLUMN_LABELS[9] = "I" /\ IndexOf(XQ_COLUMN_LABELS, "J") = 0
  /\ \A y \in 1..10 :
       /\ XqParseCoordinate(FileRank("I", y)) = <<y - 1, 8>>
       /\ XqParseCoordinate(FileRank("i", y)) = <<y - 1, 8>>
       /\ XqParseCoordinate(FileRank("J", y)) = <<>>
       /\ XqGetCoordinateLabel((y - 1) * 9 + 8) = FileRank("I", y)
  /\ XqParseMove(g, <<"I","1","-","I","2">>) = <<8, 17>>
  /\ XqParseMove(g, <<"J","1","-","J","2">>) = <<>>
GoGmkSkipI ==
  /\ \A r \in CalledRooms("gmk") : gmk[r] # NoGame => GmkSkipsI(gmk[r], gmk, r)
  /\ \A r \in CalledRooms("go") : go[r] # NoGame => GoSkipsI(go[r], go, r)

\* C33 as stated: in go, gomoku and xiangqi the alphabet of the files skips
\* the letter I; the file after H is J and a coordinate on file I is not
\* accepted.
C33_LettersSkipI ==
  /\ GoGmkSkipI
  /\ \A r \in CalledRooms("xq") : xq[r] # NoGame => XqSkipsI
\* C33 amended: in go and gomoku the alphabet of the files skips the letter
\* I, the file after H is J and a coordinate on file I is not accepted; in
\* xiangqi the nine files are A to I and a coordinate on file I is a cell
\* of the ninth file.
C33_LettersSkipIButXiangqi ==
  /\ GoGmkSkipI
  /\ \A r \in CalledRooms("xq") : xq[r] # NoGame => XqKeepsI(xq[r])
\* reached: the chariot of I1 has moved to I2 by the text "I1-I2"
C33_Witness ==
  \E r \in CalledRooms("xq") :
    /\ xq[r] # NoGame /\ xq[r].board[8] = "EMPTY" /\ xq[r].board[17] = "R_CHARIOT"
    /\ xq[r].last_move = <<8, 17>>
\* reached: a go board of nineteen and a gomoku board of fifteen with a
\* stone on J2
GoSomeStoneOnJ ==
  \E r \in CalledRooms("go") :
    go[r] # NoGame /\ go[r].board_size = 19 /\ go[r].last_move = 19 + 8
GmkSomeStoneOnJ ==
  \E r \in CalledRooms("gmk") :
    gmk[r] # NoGame /\ gmk[r].board_size = 15 /\ gmk[r].last_move = 15 + 8

\* C34: in every game with letter coordinates and on every supported size
\* of board, every cell has a label of a letter and digits, and parsing the
\* label gives the cell back.
GmkLabelled(g, pos) ==
  /\ GmkGetCoordinateLabel(g, pos) # <<>>
  /\ GmkParseCoordinate(g, GmkGetCoordinateLabel(g, pos)) = <<pos % g.board_size, pos \div g.board_size>>
GoLabelled(g, pos) ==
  /\ GoGetCoordinateLabel(g, pos) # <<>>
  /\ GoParseCoordinate(g, GoGetCoordinateLabel(g, pos)) = <<pos % g.board_size, pos \div g.board_size>>
XqLabelled(pos) ==
  /\ XqGetCoordinateLabel(pos) # <<>>
  /\ XqParseCoordinate(XqGetCoordinateLabel(pos)) = <<pos \div 9, pos % 9>>
JqLabelled(pos) ==
  /\ JqGetCoordinateLabel(pos) # <<>>
  /\ JqParseCoordinate(JqGetCoordinateLabel(pos)) = pos
OthersLabelled ==
  /\ \A r \in CalledRooms("go") : go[r] # NoGame =>
       \A pos \in 0..(go[r].board_size * go[r].board_size - 1) : GoLabelled(go[r], pos)
  /\ \A r \in CalledRooms("xq") : xq[r] # NoGame => \A pos \in 0..89 : XqLabelled(pos)
  /\ \A r \in CalledRooms("jq") : jq[r] # NoGame => \A pos \in JqCells : JqLabelled(pos)
C34_LabelsParseBack ==
  /\ OthersLabelled
  /\ \A r \in CalledRooms("gmk") : gmk[r] # NoGame =>
       \A pos \in 0..(gmk[r].board_size * gmk[r].board_size - 1) : GmkLabelled(gmk[r], pos)
\* what holds: the cells of go, xiangqi and junqi, and in gomoku those of
\* the first fourteen files; the cells of the later files have no label
\* and no letter text names them
C34_FourteenFiles ==
  /\ OthersLabelled
  /\ \A r \in CalledRooms("gmk") : gmk[r] # NoGame =>
       \A pos \in 0..(gmk[r].board_size * gmk[r].board_size - 1) :
         IF pos % gmk[r].board_size < 14 THEN GmkLabelled(gmk[r], pos)
         ELSE /\ GmkGetCoordinateLabel(gmk[r], pos) = <<>>
              /\ \A c \in {"P", "Q", "R", "S", "T", "U"} :
                   GmkParseCoordinate(gmk[r], FileRank(c, (pos \div gmk[r].board_size) + 1)) = <<>>

(***************************************************************************)
(* The turn timer of the plugin (src/main.py)                              *)
(*                                                                         *)
(* A command handler calls its manager method and, if that succeeds,       *)
(* suspends in _render_and_send (retracting, rendering and sending are     *)
(* awaited) before it manages the timers.  The scheduler runs its job on   *)
(* the same event loop, so a job may fire at any time it is pending, also  *)
(* while a handler is suspended.  One handler per room is in progress at a *)
(* time here; the job that closes an unjoined session is left out.         *)
(***************************************************************************)
TimedModes == {"ttt_tm", "gmk_tm", "go_tm", "xq_tm"}
RegOf(k) ==
  CASE k = "ttt" -> ttt [] k = "gmk" -> gmk [] k = "go" -> go [] k = "xq" -> xq [] OTHER -> jq

\* what the manager methods that the handlers of kind k call return
TmCreated(k, r, p) ==
  CASE k = "ttt" -> TttCreateGame(ttt, r, p)
    [] k = "gmk" -> GmkCreateGame(gmk, r, p, 15)
    [] k = "go" -> GoCreateGame(go, r, p, 9)
    [] OTHER -> XqCreateGame(xq, r, p)
TmJoined(k, r, p) ==
  CASE k = "ttt" -> TttJoinGame(ttt, r, p)
    [] k = "gmk" -> GmkJoinGame(gmk, r, p)
    [] k = "go" -> GoJoinGame(go, r, p)
    [] OTHER -> XqJoinGame(xq, r, p)
TmMoves(k, r, p) ==
  CASE k = "ttt" -> {TttMgrMakeMove(ttt, r, p, c) : c \in TttPositions(mode)}
    [] k = "gmk" -> {GmkMgrMakeMove(gmk, r, p, c) : c \in GmkInputs("gmk", p)}
    [] k = "go" -> {GoMgrMakeMove(go, r, p, c) : c \in GoInputs("go", p)}
    [] OTHER -> {XqMgrMakeMove(xq, r, p, c) : c \in XqInputs("xq", p)}
TmSurrendered(k, r, p) ==
  CASE k = "ttt" -> TttMgrSurrender(ttt, r, p)
    [] k = "gmk" -> GmkMgrSurrender(gmk, r, p)
    [] k = "go" -> GoMgrSurrender(go, r, p)
    [] OTHER -> XqMgrSurrender(xq, r, p)
TmPlayed(k, g) ==
  IF g = NoGame THEN 0 ELSE IF k = "ttt" THEN TttMarks(g) ELSE g.move_count

\* a handler up to its suspension: the call res of the manager; cancels
\* tells whether it removes the job; if the call succeeds and the handler
\* renders, it is suspended
Handler(k, r, res, p, what, within, cancels, renders) ==
  /\ mode \in TimedModes /\ ~awaiting[r]
  /\ Apply(k, r, res, p, what, within)
  /\ jobs' = IF cancels THEN [jobs EXCEPT ![r] = NoJob] ELSE jobs
  /\ awaiting' = [awaiting EXCEPT ![r] = res.ok /\ renders]
  /\ fired' = fired

\* ttt_start, gomoku_start, go_start, xiangqi_start
TmStart ==
  \E r \in RoomsOf(mode), p \in Creators(mode) :
    Handler(KindOf(mode), r, TmCreated(KindOf(mode), r, p), None, "fresh", TRUE, FALSE, TRUE)
\* ttt_join, gomoku_join, go_join, xiangqi_join
TmJoin ==
  \E r \in RoomsOf(mode), p \in Joiners(mode) :
    Handler(KindOf(mode), r, TmJoined(KindOf(mode), r, p), None, "keep", TRUE, FALSE, TRUE)
\* ttt_move, gomoku_move, go_move, xiangqi_move
TmMove ==
  \E r \in RoomsOf(mode), p \in Callers(mode) : \E res \in TmMoves(KindOf(mode), r, p) :
    Handler(KindOf(mode), r, res, p, IF KindOf(mode) = "go" THEN "place" ELSE "turn",
            TmPlayed(KindOf(mode), RegOf(KindOf(mode))[r]) < MaxTimedMoves, FALSE, TRUE)
\* game_surrender: the job is removed once surrender has succeeded
TmSurrender ==
  \E r \in RoomsOf(mode), p \in Callers(mode) :
    Handler(KindOf(mode), r, TmSurrendered(KindOf(mode), r, p), None, "keep", TRUE,
            TmSurrendered(KindOf(mode), r, p).ok, TRUE)
\* end_game: the job is removed first, nothing is rendered
TmEnd ==
  \E r \in RoomsOf(mode) :
    Handler(KindOf(mode), r, EndGame(RegOf(KindOf(mode)), r), None, "fresh", TRUE, TRUE, FALSE)

\* the job after the management of the timers in _render_and_send for the
\* session g
TimersManaged(k, g, job) ==
  IF g.is_finished THEN NoJob
  ELSE IF SecondPlayer(k, g) # None THEN [game_type |-> k, set_for |-> PlayerToMove(k, g)]
  ELSE job
\* _render_and_send resumes and manages the timers
TmRendered ==
  \E r \in RoomsOf(mode) :
    /\ mode \in TimedModes /\ awaiting[r]
    /\ jobs' = [jobs EXCEPT ![r] = TimersManaged(KindOf(mode), RegOf(KindOf(mode))[r], @)]
    /\ awaiting' = [awaiting EXCEPT ![r] = FALSE]
    /\ UNCHANGED <<mode, nops, actor, golog, ttt, gmk, go, xq, jq, fired>>

\* the record of a firing: the player resigned (None for nobody), the
\* player to move when the job was scheduled, whether a handler of the room
\* was suspended, and whether the session was joined and unfinished
Firing(resigned, job, suspended, playable) ==
  [resigned |-> resigned, set_for |-> job.set_for, suspended |-> suspended, playable |-> playable]
\* the condition of each branch of _handle_timeout
TmPlayable(k, g) == g # NoGame /\ ~g.is_finished /\ SecondPlayer(k, g) # None
\* _handle_timeout of the job of room r on the session g
HandleTimeout(r, k, g) ==
  IF TmPlayable(k, g)
    THEN /\ Apply(k, r, TmSurrendered(k, r, PlayerToMove(k, g)), None, "keep", TRUE)
         /\ fired' = [fired EXCEPT ![r] = Firing(PlayerToMove(k, g), jobs[r], awaiting[r], TRUE)]
    ELSE /\ fired' = [fired EXCEPT ![r] = Firing(None, jobs[r], awaiting[r], FALSE)]
         /\ UNCHANGED <<mode, nops, actor, golog, ttt, gmk, go, xq, jq>>
\* the job of a room fires
TmTimeout ==
  \E r \in RoomsOf(mode) :
    /\ mode \in TimedModes /\ jobs[r] # NoJob
    /\ HandleTimeout(r, jobs[r].game_type, RegOf(jobs[r].game_type)[r])
    /\ jobs' = [jobs EXCEPT ![r] = NoJob]
    /\ awaiting' = awaiting

InitTimer == InitIn(TimedModes)
NextTimer == TmStart \/ TmJoin \/ TmMove \/ TmSurrender \/ TmEnd \/ TmRendered \/ TmTimeout
SpecTimer == InitTimer /\ [][NextTimer]_vars

\* C35: the player a turn-timeout job resigns is the player whose turn was
\* pending when the job was scheduled, never the player who has received
\* the turn since, also when the job fires while the board of the move is
\* being rendered; a job that fires on a finished or unjoined session
\* resigns nobody.
C35_TimeoutResignsPending ==
  \A r \in Rooms :
    fired[r] # NoFire =>
      IF fired[r].playable THEN fired[r].resigned = fired[r].set_for
      ELSE fired[r].resigned = None
\* what holds: the job resigns the player to move when it fires, who is
\* the player it was scheduled for unless a handler of the room is
\* suspended; on a finished or unjoined session it resigns nobody
C35_TimeoutResignsHolder ==
  /\ \A r \in Rooms :
       fired[r] # NoFire =>
         /\ fired[r].playable = (fired[r].resigned # None)
         /\ fired[r].playable /\ ~fired[r].suspended => fired[r].resigned = fired[r].set_for
  /\ \A r \in Rooms : \A k \in {"ttt", "gmk", "go", "xq"} :
       jobs[r] # NoJob /\ ~awaiting[r] /\ KindOf(mode) = k =>
         TmPlayable(k, RegOf(k)[r]) /\ jobs[r].set_for = PlayerToMove(k, RegOf(k)[r])
\* reached: a job fired while the handler of a move was suspended and
\* resigned the player who had just received the turn; a job fired on a
\* finished session
TmSomeWrongPlayer ==
  \E r \in Rooms :
    fired[r] # NoFire /\ fired[r].suspended /\ fired[r].resigned \notin {None, fired[r].set_for}
TmSomeNobody ==
  \E r \in Rooms : fired[r] # NoFire /\ ~fired[r].playable

\* C36: the undo of a placement restores the counter of consecutive passes
\* to its value before the placement: after a pass of one player, a
\* placement of the other that is undone and a pass instead, the game has
\* ended by two consecutive passes.
GoUndoRestoresPasses(g, p, x, y, res) ==
  res.ok =>
    /\ GoUndo(res.g, p).ok
    /\ GoUndo(res.g, p).g.consecutive_passes = g.consecutive_passes
    /\ g.consecutive_passes = 1 =>
         /\ GoPassTurn(GoUndo(res.g, p).g, p).ok
         /\ GoPassTurn(GoUndo(res.g, p).g, p).g.is_finished
C36_UndoRestoresPasses == GoPlacements(GoUndoRestoresPasses)
\* what holds: the placement sets the counter to zero and the undo leaves
\* it there, so the pass after the undo is a first pass
GoUndoLeavesPasses(g, p, x, y, res) ==
  res.ok =>
    /\ GoUndo(res.g, p).ok
    /\ GoUndo(res.g, p).g.consecutive_passes = 0
    /\ GoPassTurn(GoUndo(res.g, p).g, p).ok
    /\ ~GoPassTurn(GoUndo(res.g, p).g, p).g.is_finished
    /\ GoPassTurn(GoUndo(res.g, p).g, p).g.consecutive_passes = 1
C36_UndoLeavesPassesAtZero == GoPlacements(GoUndoLeavesPasses)
\* reached: a session after a pass, a placement and its undo
GoSomeUndoAfterPass ==
  \E r \in CalledRooms("go") :
    /\ go[r] # NoGame /\ golog[r].earlier = "pass" /\ golog[r].last = "place"
    /\ actor["go"][r].undone /\ go[r].consecutive_passes = 0 /\ ~go[r].is_finished

\* the liberties of a group: the empty cells adjacent to one of its stones
GoLibertiesOf(board, n, group) ==
  {e \in GoCells(n) \ (board.BLACK \cup board.WHITE) : \E q \in group : GoAdjacent(n, q, e)}
GoAllAlive(g) ==
  \A q \in g.board.BLACK \cup g.board.WHITE :
    GoLibertiesOf(g.board, g.board_size, GoGroupOf(g.board, g.board_size, q)) # {}
\* C37: in every reachable go state, also after captures and after an undo,
\* every group of stones on the board has at least one liberty; so has the
\* board that the undo of the last placement would restore.
C37_GoGroupsHaveLiberties ==
  \A r \in CalledRooms("go") :
    go[r] # NoGame =>
      /\ GoAllAlive(go[r])
      /\ go[r].last_board_state # <<>> =>
           GoAllAlive([go[r] EXCEPT !.board = go[r].last_board_state[1]])
\* reached: stones have been captured and a group on the board is down to
\* its last liberty; and such a group after the last placement has been
\* taken back
C37_Witness ==
  \E r \in CalledRooms("go") :
    /\ go[r] # NoGame /\ go[r].captured_white + go[r].captured_black > 0
    /\ \E q \in go[r].board.BLACK \cup go[r].board.WHITE :
         Cardinality(GoLibertiesOf(go[r].board, go[r].board_size,
                                   GoGroupOf(go[r].board, go[r].board_size, q))) = 1
GoSomeAtariAfterUndo ==
  \E r \in CalledRooms("go") :
    /\ go[r] # NoGame /\ actor["go"][r].undone
    /\ \E q \in go[r].board.BLACK \cup go[r].board.WHITE :
         Cardinality(GoLibertiesOf(go[r].board, go[r].board_size,
                                   GoGroupOf(go[r].board, go[r].board_size, q))) = 1

\* a session played on from a position in progress
XqPlayedOnSome ==
  \E r \in CalledRooms("xq") : xq[r] # NoGame /\ XqPlayedOn(xq[r]) > 0
XqSomeCapture ==
  \E r \in CalledRooms("xq") :
    /\ xq[r] # NoGame /\ XqPlayedOn(xq[r]) = MaxEndMoves
    /\ Cardinality({c \in 0..89 : xq[r].board[c] # "EMPTY"}) < 13
\* each side has exactly one king on the board
XqOneKingEach(board) ==
  /\ Cardinality({c \in 0..89 : board[c] = "R_KING"}) = 1
  /\ Cardinality({c \in 0..89 : board[c] = "B_KING"}) = 1
\* a committed move takes no king and leaves a king of each side; a
\* refused move leaves the board as it was
XqKeepsKings(g, p, from_pos, to_pos, res) ==
  IF res.ok
    THEN /\ g.board[to_pos] \notin {"R_KING", "B_KING"}
         /\ XqOneKingEach(res.g.board)
    ELSE res.g.board = g.board
\* C38: in every reachable xiangqi state each side has exactly one king on
\* the board, and no committed move captures a king: when a side is to move
\* in an unfinished session the king of the other side is not attacked.
C38_XqOneKingEach ==
  /\ \A r \in CalledRooms("xq") :
       xq[r] # NoGame =>
         /\ XqOneKingEach(xq[r].board)
         /\ ~xq[r].is_finished =>
              ~XqAttacked(xq[r].board, IF xq[r].current_turn = "RED" THEN "BLACK" ELSE "RED")
  /\ XqMoves(XqKeepsKings)
\* reached: a king in check in an unfinished session, with a move of its
\* side that is committed and a capture that is committed
XqAnswersCheck(g, p, from_pos, to_pos, res) ==
  g.in_check /\ ~g.is_finished /\ res.ok /\ XqOneKingEach(res.g.board)
XqCaptures(g, p, from_pos, to_pos, res) == res.ok /\ g.board[to_pos] # "EMPTY"
C38_Witness == SomeXqMove(XqAnswersCheck) /\ XqPlayedOnSome

\* the player to move has a flip or a move that succeeds
JqCanAct(g) ==
  \/ \E pos \in JqCells : JqFlip(g, get_current_player(g), pos).ok
  \/ \E from_pos \in JqCells : \E to_pos \in JqCells :
       JqMove(g, get_current_player(g), from_pos, to_pos).ok
\* C39: in every reachable unfinished junqi session that both players have
\* joined, the player to move has at least one flip or move that succeeds.
C39_JqMoverCanAct ==
  \A r \in CalledRooms("jq") :
    jq[r] # NoGame /\ ~jq[r].is_finished /\ jq[r].player_b # None => JqCanAct(jq[r])
\* what holds: the player to move can act while a piece is face down, or
\* while a piece of its side that may move is next to an empty cell or to a
\* piece of the other side; with neither, every flip and move is refused
JqHasFaceDown(g) == \E pos \in JqCells : g.board[pos] # NoPiece /\ ~g.board[pos].revealed
JqHasFreePiece(g) ==
  \E from_pos \in JqCells : \E to_pos \in JqNeighbors(from_pos) :
    /\ g.board[from_pos] # NoPiece /\ g.board[from_pos].revealed
    /\ g.board[from_pos].side = get_player_side(g, get_current_player(g))
    /\ g.board[from_pos].piece_type \notin {"MINE", "FLAG"}
    /\ \/ g.board[to_pos] = NoPiece
       \/ g.board[to_pos].revealed /\ g.board[to_pos].side # g.board[from_pos].side
C39_JqMoverActsIfFree ==
  \A r \in CalledRooms("jq") :
    jq[r] # NoGame /\ ~jq[r].is_finished /\ jq[r].player_b # None =>
      (JqCanAct(jq[r]) <=> JqHasFaceDown(jq[r]) \/ JqHasFreePiece(jq[r]))
\* reached: blue to move with its flag and a mine alone, unfinished
JqSomeStuck ==
  \E r \in CalledRooms("jq") :
    /\ jq[r] # NoGame /\ ~jq[r].is_finished /\ jq[r].player_b # None
    /\ ~JqCanAct(jq[r]) /\ JqPlayedOn(jq[r]) > 0

\* Hidden information. Two sessions are alike when they differ at most in
\* the kind and side of pieces that are face down in both
JqFaceDownAt(g, pos) == g.board[pos] # NoPiece /\ ~g.board[pos].revealed
JqDiffering(g, h) == {pos \in JqCells : g.board[pos] # h.board[pos]}
JqAlike(g, h) ==
  /\ [h EXCEPT !.board = g.board] = g
  /\ \A pos \in JqDiffering(g, h) : JqFaceDownAt(g, pos) /\ JqFaceDownAt(h, pos)
\* the sessions compared with g: two face-down pieces among the first eight
\* cells exchanged, or one of them replaced by another piece
JqNear == 0..7
JqDisguises == {Piece("FLAG", "RED"), Piece("BOMB", "BLUE")}
JqVariants(g) ==
  {[g EXCEPT !.board[c] = g.board[d], !.board[d] = g.board[c]] :
      c \in {pos \in JqNear : JqFaceDownAt(g, pos)},
      d \in {pos \in JqNear : JqFaceDownAt(g, pos)}}
  \cup {[g EXCEPT !.board[c] = q] :
           c \in {pos \in JqNear : JqFaceDownAt(g, pos)}, q \in JqDisguises}
\* same flag and message, and the session after the call on h is the one
\* after the call on g with the differing pieces, still face down, in place
JqSameOutcome(res, res2, h, differing) ==
  /\ res.ok = res2.ok /\ res.msg = res2.msg
  /\ \A pos \in differing : JqFaceDownAt(res.g, pos)
  /\ res2.g = [res.g EXCEPT !.board = [pos \in JqCells |->
                  IF pos \in differing THEN h.board[pos] ELSE res.g.board[pos]]]
\* targets tried from a cell: its neighbours and two far cells for a face-up
\* piece, two cells otherwise
JqTargets(g, from_pos) ==
  IF g.board[from_pos] # NoPiece /\ g.board[from_pos].revealed
    THEN JqNeighbors(from_pos) \cup {0, JQ_ROWS * JQ_COLS - 1}
    ELSE {0, from_pos + 1}
JqHides(g, h, differing) ==
  /\ \A viewer_id \in {None, g.player_a, g.player_b} :
       JqGetBoardForRender(g, viewer_id) = JqGetBoardForRender(h, viewer_id)
  /\ \A p \in Players : \A pos \in JqTried(g, p, JqCells) \ differing :
       JqSameOutcome(JqFlip(g, p, pos), JqFlip(h, p, pos), h, differing)
  /\ \A p \in Players : \A from_pos \in JqTried(g, p, JqCells) :
       \A to_pos \in JqTargets(g, from_pos) :
         JqSameOutcome(JqMove(g, p, from_pos, to_pos), JqMove(h, p, from_pos, to_pos),
                       h, differing)
\* C40: junqi outputs do not depend on face-down pieces: for two sessions that
\* differ only in the kind and side of pieces still face down, the render
\* data is identical, and every flip or move that does not flip a differing
\* cell returns the same ok flag and message and leads to sessions that
\* again differ only in those face-down pieces.
C40_JqHidesFaceDown ==
  \A r \in CalledRooms("jq") :
    jq[r] # NoGame => \A h \in JqVariants(jq[r]) : JqAlike(jq[r], h) /\ JqHides(jq[r], h, JqDiffering(jq[r], h))
\* reached: a joined session after a battle, with a variant that differs
\* from it next to a face-up piece of the player to move, and a flip and a
\* move that succeed in both
C40_Witness ==
  \E r \in CalledRooms("jq") :
    /\ jq[r] # NoGame /\ ~jq[r].is_finished /\ jq[r].player_b # None
    /\ \E h \in JqVariants(jq[r]) :
         /\ JqDiffering(jq[r], h) # {}
         /\ \E from_pos \in JqCells : \E to_pos \in JqNeighbors(from_pos) :
              /\ to_pos \in JqDiffering(jq[r], h)
              /\ jq[r].board[from_pos] # NoPiece /\ jq[r].board[from_pos].revealed
              /\ jq[r].board[from_pos].side = get_player_side(jq[r], get_current_player(jq[r]))
              /\ ~JqMove(jq[r], get_current_player(jq[r]), from_pos, to_pos).ok
         /\ \E pos \in JqCells \ JqDiffering(jq[r], h) :
              JqFlip(h, get_current_player(h), pos).ok
         /\ \E from_pos \in JqCells : \E to_pos \in JqNeighbors(from_pos) :
              JqMove(h, get_current_player(h), from_pos, to_pos).ok
====
